---- MODULE Spec2Model ----
(***************************************************************************)
(* State-machine model of the HTTP-tunnelled TCP relay: the session        *)
(* registry (commands.rs), the per-connection Session with its reader and  *)
(* writer tasks (session.rs) and the four command handlers (commands.rs).  *)
(* The upstream TCP peer is the environment.                               *)
(***************************************************************************)
EXTENDS Integers, Sequences, FiniteSets, TLC

\* ------------------------------------------------------------------ bounds
\* Number of concurrently running request handlers (tokio::spawn per request).
MaxRequests == 2
\* Number of Session objects ever constructed by Session::new.
MaxSessions == 1
\* The same number where CONNECT is repeated on a mark that is in use.
MaxReconnects == 2
\* Total number of payload bytes that enter the relay: chunks submitted by
\* FORWARD / write_async plus bytes produced by "source" upstreams.
MaxBytes == 2
\* The same total when the upstream is a peer that has stopped reading:
\* enough to fill the writer task's hand and the write channel and to
\* leave one more write_async waiting.
MaxStallBytes == 4
\* Capacity of the two mpsc channels of a Session (CHANNEL_CAPACITY, scaled).
ChanCap == 2
\* Size of the reader task's buffer (BUFFER_SIZE, scaled).
BufSize == 2

\* Longest byte string handed to base64_encode.
MaxRaw == 4
\* Largest number of fields of a frame handed to blv_encode.
MaxFields == 2

Procs == 1..MaxRequests
SessIds == 1..MaxSessions
AllSess == 1..MaxReconnects
Marks == {"m1"}
\* The program never inspects payload bytes; every chunk sent and every
\* byte a source upstream produces carries a fresh label (1, 2, ...), so
\* that loss, duplication and reordering show in the values.
NoData == <<0>>
NoChunk == [d |-> <<>>, t |-> 0]

VARIABLES
    registry,   \* Sessions map: mark -> session id, 0 when the mark is absent
    lock,       \* holder of the Sessions mutex, 0 when free
    nsess,      \* number of Sessions constructed so far
    nfwd,       \* number of chunk-carrying FORWARD / write calls so far
    fwdSeq,     \* number of FORWARDs that took the Sessions mutex with a chunk
    sess,       \* per-Session state (channels, closed flag, tasks, socket)
    req,        \* per-handler state (program counter, locals, reply)
    codec       \* the Codec call under way: its argument and its result

vars == <<registry, lock, nsess, nfwd, fwdSeq, sess, req, codec>>

\* ------------------------------------------------------------- sequences
RECURSIVE Flatten(_)
Flatten(q) == IF q = <<>> THEN <<>> ELSE Head(q) \o Flatten(Tail(q))

RECURSIVE FlattenD(_)
FlattenD(q) == IF q = <<>> THEN <<>> ELSE Head(q).d \o FlattenD(Tail(q))

IsPrefix(a, b) == Len(a) <= Len(b) /\ SubSeq(b, 1, Len(a)) = a

Min(a, b) == IF a < b THEN a ELSE b

\* ------------------------------------------------------ initial records
\* A Session slot before Session::new has run for it.
NoSession ==
    [closed |-> FALSE, inbox |-> <<>>, outbox |-> <<>>, rxLock |-> 0,
     rpc |-> "none", rbuf |-> <<>>, wpc |-> "none", wbuf |-> NoChunk,
     sockIn |-> <<>>, arrived |-> <<>>, wire |-> <<>>, echoed |-> 0,
     up |-> "open", kind |-> "source", wrShut |-> FALSE, readLog |-> <<>>,
     closeRet |-> FALSE]

\* Session::new: both channels empty, closed = false, both tasks spawned.
NewSession(k) ==
    [NoSession EXCEPT !.rpc = "check", !.wpc = "recv", !.kind = k]

NoReply == [status |-> "", error |-> "", data |-> NoData]

IdleReq ==
    [pc |-> "idle", cmd |-> "", mark |-> "", data |-> NoData, s |-> 0,
     own |-> FALSE, snap |-> FALSE, tk |-> 0, res |-> "", reply |-> NoReply,
     body |-> ""]

\* A request that has been dispatched to its handler.
NewReq(cmd, mark, data, pc) ==
    [IdleReq EXCEPT !.pc = pc, !.cmd = cmd, !.mark = mark, !.data = data]

\* No Codec call under way.
NoCodec ==
    [op |-> "idle", raw |-> <<>>, text |-> <<>>, res |-> [ok |-> FALSE, v |-> <<>>],
     info |-> <<>>, padded |-> <<>>, order |-> <<>>, buf |-> <<>>, cut |-> 0,
     out |-> <<>>, panicked |-> FALSE]

Init ==
    /\ registry = [m \in Marks |-> 0]
    /\ lock = 0
    /\ nsess = 0
    /\ nfwd = 0
    /\ fwdSeq = 0
    /\ sess = [s \in AllSess |-> NoSession]
    /\ req = [p \in Procs |-> IdleReq]
    /\ codec = NoCodec

\* Payload bytes that have entered the relay so far.
RECURSIVE SourceBytes(_)
SourceBytes(n) ==
    IF n = 0 THEN 0
    ELSE SourceBytes(n - 1) + (IF sess[n].kind = "source" THEN Len(sess[n].arrived) ELSE 0)

Traffic == nfwd + SourceBytes(MaxReconnects)

Budget ==
    IF \E s \in SessIds : sess[s].kind = "stalled" THEN MaxStallBytes ELSE MaxBytes

\* ------------------------------------------------- channels and the flag
\* Faulty variant of ChanSend: the chunk jumps the queue.
ChanSendFront(q, x) == <<x>> \o q

\* mpsc::Sender::send on a channel with room: the chunk joins the tail.
ChanSend(q, x) == Append(q, x)

\* A bounded channel holding CHANNEL_CAPACITY chunks parks the sender.
ChanFull(q) == Len(q) >= ChanCap

\* Faulty variant of SetClosed: the flag is flipped instead of set.
SetClosedFlip(c) == ~c

\* Faulty variant of DrainAll: every drained chunk is taken twice.
DrainDup(all, q) == all \o Flatten(q) \o Flatten(q)

\* Faulty variant of ShouldWait: the closed snapshot is not consulted.
ShouldWaitAlways(closed, all) == all = <<>>

\* Faulty variant of RecvOutcome: an empty channel is taken for a closed one.
RecvOutcomeNoTimer(q, senderDropped) == IF q # <<>> THEN "Some" ELSE "None"

\* Faulty variant of SetClosed: the flag is left as it is.
SetClosedNoop(c) == c

\* `*closed.lock().await = true`
SetClosed(c) == TRUE

\* Some clone of the Session exists (the registry's, or one a handler or a
\* test owns): the write channel's Sender and the buffer channel's
\* Receiver live exactly as long.
SessionAlive(s) ==
    \/ \E m \in Marks : registry[m] = s
    \/ \E p \in Procs : req[p].own /\ req[p].s = s

\* Faulty variant of ReaderExit: the flag is left as it was.
ReaderExitOpen(r, c) ==
    [r EXCEPT !.rpc = "done", !.rbuf = <<>>, !.wrShut = TRUE]

\* A task that leaves its loop shuts the socket's write side down and
\* ends, dropping its end of its channel.
ReaderExit(r, c) ==
    [r EXCEPT !.closed = c, !.rpc = "done", !.rbuf = <<>>, !.wrShut = TRUE]

\* Faulty variant of WriterExit: the flag is left as it was.
WriterExitOpen(r, c) ==
    [r EXCEPT !.wpc = "done", !.wbuf = NoChunk, !.inbox = <<>>, !.wrShut = TRUE]

WriterExit(r, c) ==
    [r EXCEPT !.closed = c, !.wpc = "done", !.wbuf = NoChunk,
              !.inbox = <<>>, !.wrShut = TRUE]

\* ------------------------------------------------------------ reader task
\* `while !*closed.lock().await`
ReaderCheck(s) ==
    /\ sess[s].rpc = "check"
    /\ sess' = [sess EXCEPT ![s] =
                  IF sess[s].closed THEN ReaderExit(sess[s], sess[s].closed)
                  ELSE [sess[s] EXCEPT !.rpc = "read"]]
    /\ UNCHANGED <<registry, lock, nsess, nfwd, fwdSeq, req, codec>>

\* `stream.read(&mut buf).await`: an error, n > 0 bytes, or n = 0 at EOF;
\* pending while the socket has nothing to report.
ReaderRead(s) ==
    /\ sess[s].rpc = "read"
    /\ \/ /\ sess[s].up = "rst"
          /\ sess' = [sess EXCEPT ![s] = ReaderExit(sess[s], SetClosed(sess[s].closed))]
       \/ /\ sess[s].up # "rst"
          /\ sess[s].sockIn # <<>>
          /\ \E n \in 1..Min(Len(sess[s].sockIn), BufSize) :
                sess' = [sess EXCEPT ![s].rbuf = SubSeq(sess[s].sockIn, 1, n),
                                     ![s].sockIn = SubSeq(sess[s].sockIn, n + 1,
                                                          Len(sess[s].sockIn)),
                                     ![s].rpc = "send"]
       \/ /\ sess[s].up = "fin"
          /\ sess[s].sockIn = <<>>
          /\ sess' = [sess EXCEPT ![s] = ReaderExit(sess[s], SetClosed(sess[s].closed))]
    /\ UNCHANGED <<registry, lock, nsess, nfwd, fwdSeq, req, codec>>

\* `tx_buffer.send(data).await`: fails once the Receiver is gone, parks
\* while the read-outbox is full.
ReaderSend(s) ==
    /\ sess[s].rpc = "send"
    /\ \/ /\ ~SessionAlive(s)
          /\ sess' = [sess EXCEPT ![s] = ReaderExit(sess[s], SetClosed(sess[s].closed))]
       \/ /\ SessionAlive(s)
          /\ ~ChanFull(sess[s].outbox)
          /\ sess' = [sess EXCEPT ![s].outbox = ChanSend(sess[s].outbox, sess[s].rbuf),
                                  ![s].rbuf = <<>>,
                                  ![s].rpc = "check"]
    /\ UNCHANGED <<registry, lock, nsess, nfwd, fwdSeq, req, codec>>

\* ------------------------------------------------------------ writer task
\* Faulty variant of WriterRecv: an empty inbox ends the task.
WriterRecvEager(s) ==
    /\ sess[s].wpc = "recv"
    /\ sess' = [sess EXCEPT ![s] =
                  IF sess[s].inbox # <<>>
                  THEN [sess[s] EXCEPT !.wbuf = Head(sess[s].inbox),
                                       !.inbox = Tail(sess[s].inbox),
                                       !.wpc = "check"]
                  ELSE WriterExit(sess[s], sess[s].closed)]
    /\ UNCHANGED <<registry, lock, nsess, nfwd, fwdSeq, req, codec>>

\* `while let Some(data) = rx.recv().await`: buffered chunks first, None
\* once every Sender is dropped and the inbox is empty.
WriterRecv(s) ==
    /\ sess[s].wpc = "recv"
    /\ \/ /\ sess[s].inbox # <<>>
          /\ sess' = [sess EXCEPT ![s].wbuf = Head(sess[s].inbox),
                                  ![s].inbox = Tail(sess[s].inbox),
                                  ![s].wpc = "check"]
       \/ /\ sess[s].inbox = <<>>
          /\ ~SessionAlive(s)
          /\ sess' = [sess EXCEPT ![s] = WriterExit(sess[s], sess[s].closed)]
    /\ UNCHANGED <<registry, lock, nsess, nfwd, fwdSeq, req, codec>>

\* Faulty variant of WriterCheck: the flag is not looked at.
WriterCheckBlind(s) ==
    /\ sess[s].wpc = "check"
    /\ sess' = [sess EXCEPT ![s].wpc = "write"]
    /\ UNCHANGED <<registry, lock, nsess, nfwd, fwdSeq, req, codec>>

\* `if *closed.lock().await { break; }`
WriterCheck(s) ==
    /\ sess[s].wpc = "check"
    /\ sess' = [sess EXCEPT ![s] =
                  IF sess[s].closed THEN WriterExit(sess[s], sess[s].closed)
                  ELSE [sess[s] EXCEPT !.wpc = "write"]]
    /\ UNCHANGED <<registry, lock, nsess, nfwd, fwdSeq, req, codec>>

\* `stream.write_all(&data).await`: fails on a reset connection or a
\* write side already shut down, else the chunk is on the wire.
\* Faulty variant of WireWrite: the chunk goes out twice.
WireWriteTwice(w, c) == Append(Append(w, c), c)

\* `stream.write_all(&data)`
WireWrite(w, c) == Append(w, c)

\* A "stalled" peer has stopped reading and the socket's send buffer is
\* full: write_all stays pending unless the socket fails.
WriterWrite(s) ==
    /\ sess[s].wpc = "write"
    /\ sess[s].kind = "stalled" => (sess[s].up = "rst" \/ sess[s].wrShut)
    /\ sess' = [sess EXCEPT ![s] =
                  IF sess[s].up = "rst" \/ sess[s].wrShut
                  THEN WriterExit(sess[s], SetClosed(sess[s].closed))
                  ELSE [sess[s] EXCEPT !.wire = WireWrite(sess[s].wire, sess[s].wbuf),
                                       !.wbuf = NoChunk,
                                       !.wpc = "recv"]]
    /\ UNCHANGED <<registry, lock, nsess, nfwd, fwdSeq, req, codec>>

\* --------------------------------------------------- upstream TCP peer
Connected(s) == sess[s].rpc # "none" /\ ~(sess[s].rpc = "done" /\ sess[s].wpc = "done")

\* A peer that produces bytes of its own.
UpSend(s) ==
    /\ Connected(s) /\ sess[s].kind = "source" /\ sess[s].up = "open"
    /\ Traffic < MaxBytes
    /\ LET b == Len(sess[s].arrived) + 1 IN
       sess' = [sess EXCEPT ![s].sockIn = Append(sess[s].sockIn, b),
                            ![s].arrived = Append(sess[s].arrived, b)]
    /\ UNCHANGED <<registry, lock, nsess, nfwd, fwdSeq, req, codec>>

\* A peer that sends back what it received, byte by byte.
UpEcho(s) ==
    /\ Connected(s) /\ sess[s].kind = "echo" /\ sess[s].up = "open"
    /\ sess[s].echoed < Len(FlattenD(sess[s].wire))
    /\ LET b == FlattenD(sess[s].wire)[sess[s].echoed + 1] IN
       sess' = [sess EXCEPT ![s].sockIn = Append(sess[s].sockIn, b),
                            ![s].arrived = Append(sess[s].arrived, b),
                            ![s].echoed = sess[s].echoed + 1]
    /\ UNCHANGED <<registry, lock, nsess, nfwd, fwdSeq, req, codec>>

\* The peer closes its side (FIN): the reader sees EOF after the bytes
\* still in the socket.
UpClose(s) ==
    /\ Connected(s) /\ sess[s].up = "open"
    /\ sess' = [sess EXCEPT ![s].up = "fin"]
    /\ UNCHANGED <<registry, lock, nsess, nfwd, fwdSeq, req, codec>>

\* The connection is reset (RST): pending bytes are discarded and every
\* later socket operation fails.
UpReset(s) ==
    /\ Connected(s) /\ sess[s].up \in {"open", "fin"}
    /\ sess' = [sess EXCEPT ![s].up = "rst", ![s].sockIn = <<>>]
    /\ UNCHANGED <<registry, lock, nsess, nfwd, fwdSeq, req, codec>>

\* ------------------------------------------------------ replies, results
\* set_failure_response: Status = FAIL and the Error text.
\* Faulty variant of set_failure_response: the status says OK.
set_failure_responseOk(msg) == [status |-> "OK", error |-> msg, data |-> NoData]

set_failure_response(msg) == [status |-> "FAIL", error |-> msg, data |-> NoData]

\* Faulty variant of ErrorText: the error has no text.
ErrorTextNone(res) == ""

\* NeoError's Display text, as `e.to_string()` puts it into the reply.
ErrorText(res) ==
    IF res = "SessionClosed" THEN "Session is closed" ELSE "Error: Send failed"

\* `sessions.lock().await` returns once no other task holds the guard.
LockFree == lock = 0

\* The guard a handler holds is dropped when the handler returns.
Release(p) == IF lock = p THEN 0 ELSE lock

\* The handler returns with reply `rep`: its locals are gone, and
\* handle_request sends the encoded reply frame as the response body.
Return(r, rep) ==
    [IdleReq EXCEPT !.pc = "done", !.cmd = r.cmd, !.mark = r.mark, !.reply = rep,
                    !.body = "frame"]

\* A direct caller of the Session API keeps its handle and the Result.
ApiReturn(r, res, data) ==
    [r EXCEPT !.pc = "done", !.res = res, !.data = NoData, !.tk = 0,
              !.reply.data = data]

\* Faulty variant of AfterWrite: the reply is OK whatever the result.
AfterWriteOk(r, res) ==
    IF r.cmd = "FORWARD"
    THEN [Return(r, [NoReply EXCEPT !.status = "OK"]) EXCEPT !.res = res]
    ELSE ApiReturn(r, res, NoData)

\* What the caller of write_async does with its result: handle_forward
\* fills the reply; a direct caller keeps the Result.
AfterWrite(r, res) ==
    IF r.cmd = "FORWARD"
    THEN [Return(r, IF res = "Ok" THEN [NoReply EXCEPT !.status = "OK"]
                    ELSE set_failure_response(ErrorText(res)))
          EXCEPT !.res = res]
    ELSE ApiReturn(r, res, NoData)

\* Faulty variant of AfterRead: an Err of read_async becomes a FAIL reply.
AfterReadFail(r, res, data) ==
    IF r.cmd = "READ"
    THEN [Return(r, IF res = "Ok" THEN [r.reply EXCEPT !.data = data]
                    ELSE set_failure_response(ErrorText(res)))
          EXCEPT !.res = res]
    ELSE ApiReturn(r, res, IF res = "Ok" THEN data ELSE NoData)

\* What the caller of read_async does with its result: handle_read inserts
\* Data on Ok and only logs an Err; its Session clone is dropped.
AfterRead(r, res, data) ==
    IF r.cmd = "READ"
    THEN [Return(r, [r.reply EXCEPT !.data = IF res = "Ok" THEN data ELSE NoData])
          EXCEPT !.res = res]
    ELSE ApiReturn(r, res, IF res = "Ok" THEN data ELSE NoData)

\* What the caller of close does next: handle_disconnect drops the removed
\* Session and sets Status = OK.
AfterClose(r) ==
    IF r.cmd = "DISCONNECT"
    THEN Return(r, [r.reply EXCEPT !.status = "OK"])
    ELSE ApiReturn(r, "Ok", NoData)

\* --------------------------------------------------- Session::write_async
\* `let closed = *self.closed.lock().await; if closed { return Err(..) }`
WriteCheck(p) ==
    /\ req[p].pc = "w_check"
    /\ IF sess[req[p].s].closed
       THEN /\ req' = [req EXCEPT ![p] = AfterWrite(req[p], "SessionClosed")]
            /\ lock' = Release(p)
       ELSE /\ req' = [req EXCEPT ![p].pc = "w_send"]
            /\ UNCHANGED lock
    /\ UNCHANGED <<registry, nsess, nfwd, fwdSeq, sess, codec>>

\* `self.tx.send(data.to_vec()).await`: Err once the writer task dropped
\* the Receiver, parked while the write-inbox is full.
WriteSend(p) ==
    LET s == req[p].s IN
    /\ req[p].pc = "w_send"
    /\ \/ /\ sess[s].wpc = "done"
          /\ sess' = [sess EXCEPT ![s].closed = SetClosed(sess[s].closed)]
          /\ req' = [req EXCEPT ![p] = AfterWrite(req[p], "SendFailed")]
       \/ /\ sess[s].wpc # "done"
          /\ ~ChanFull(sess[s].inbox)
          /\ sess' = [sess EXCEPT ![s].inbox =
                        ChanSend(sess[s].inbox, [d |-> req[p].data, t |-> req[p].tk])]
          /\ req' = [req EXCEPT ![p] = AfterWrite(req[p], "Ok")]
    /\ lock' = Release(p)
    /\ UNCHANGED <<registry, nsess, nfwd, fwdSeq, codec>>

\* ---------------------------------------------------- Session::read_async
\* Faulty variant of Extend: the chunk is put in front of the data collected.
ExtendFront(all, data) == data \o all

\* `all_data.extend(data)`
Extend(all, data) == all \o data

\* `while let Ok(data) = rx.try_recv() { all_data.extend(data); }`
RECURSIVE DrainAll(_, _)
DrainAll(all, q) ==
    IF q = <<>> THEN all ELSE DrainAll(Extend(all, Head(q)), Tail(q))

\* `if all_data.is_empty() && !closed`: wait for one more chunk.
ShouldWait(closed, all) == all = <<>> /\ ~closed

\* Faulty variant of ReadResult: an empty buffer is always Ok.
ReadResultOk(closed, all) == "Ok"

\* `if closed && all_data.is_empty() { Err(SessionClosed) } else { Ok(all_data) }`
ReadResult(closed, all) == IF closed /\ all = <<>> THEN "SessionClosed" ELSE "Ok"

\* `timeout(.., rx.recv())`: the inner future is polled first, so a chunk
\* present wins; None needs an empty channel whose Sender is dropped; the
\* timer fires otherwise.
RecvOutcome(q, senderDropped) ==
    IF q # <<>> THEN "Some" ELSE IF senderDropped THEN "None" ELSE "Elapsed"

\* `let closed = self.is_closed().await;`
ReadSnap(p) ==
    /\ req[p].pc = "rd_snap"
    /\ req' = [req EXCEPT ![p].snap = sess[req[p].s].closed, ![p].pc = "rd_lock"]
    /\ UNCHANGED <<registry, lock, nsess, nfwd, fwdSeq, sess, codec>>

\* `self.rx_buffer.lock().await`, then the try_recv loop; unless it has to
\* wait, the function returns here and the guard is dropped.
ReadDrain(p) ==
    LET s == req[p].s
        all == DrainAll(<<>>, sess[s].outbox)
        res == ReadResult(req[p].snap, all) IN
    /\ req[p].pc = "rd_lock"
    /\ sess[s].rxLock = 0
    /\ \/ /\ ShouldWait(req[p].snap, all)
          /\ sess' = [sess EXCEPT ![s].rxLock = p, ![s].outbox = <<>>]
          /\ req' = [req EXCEPT ![p].pc = "rd_wait"]
       \/ /\ ~ShouldWait(req[p].snap, all)
          /\ sess' = [sess EXCEPT ![s].outbox = <<>>,
                                  ![s].readLog = IF res = "Ok" THEN sess[s].readLog \o all
                                                 ELSE sess[s].readLog]
          /\ req' = [req EXCEPT ![p] = AfterRead(req[p], res, all)]
    /\ UNCHANGED <<registry, lock, nsess, nfwd, fwdSeq, codec>>

\* `timeout(Duration::from_millis(TIMEOUT_MS), rx.recv()).await` and the
\* rest of the function; the snapshot is false here.
ReadWait(p) ==
    LET s == req[p].s
        got == RecvOutcome(sess[s].outbox, sess[s].rpc = "done") IN
    /\ req[p].pc = "rd_wait"
    /\ \/ /\ got = "Some"
          /\ LET all == Extend(<<>>, Head(sess[s].outbox)) IN
             /\ sess' = [sess EXCEPT ![s].outbox = Tail(sess[s].outbox),
                                     ![s].rxLock = 0,
                                     ![s].readLog = sess[s].readLog \o all]
             /\ req' = [req EXCEPT ![p] = AfterRead(req[p], ReadResult(req[p].snap, all), all)]
       \/ /\ got = "None"
          /\ sess' = [sess EXCEPT ![s].closed = SetClosed(sess[s].closed),
                                  ![s].rxLock = 0]
          /\ req' = [req EXCEPT ![p] = AfterRead(req[p], "SessionClosed", <<>>)]
       \/ /\ got = "Elapsed"
          /\ sess' = [sess EXCEPT ![s].rxLock = 0]
          /\ req' = [req EXCEPT ![p] = AfterRead(req[p], ReadResult(req[p].snap, <<>>), <<>>)]
    /\ UNCHANGED <<registry, lock, nsess, nfwd, fwdSeq, codec>>

\* --------------------------------------------------------- Session::close
\* `*self.closed.lock().await = true`; closeRet records that a close()
\* call has returned.
Close(p) ==
    /\ req[p].pc = "cl_set"
    /\ sess' = [sess EXCEPT ![req[p].s].closed = SetClosed(sess[req[p].s].closed),
                            ![req[p].s].closeRet = TRUE]
    /\ req' = [req EXCEPT ![p] = AfterClose(req[p])]
    /\ lock' = Release(p)
    /\ UNCHANGED <<registry, nsess, nfwd, fwdSeq, codec>>

\* ------------------------------------------------------- handle_request
\* CONNECT requests whose socket is connected but not yet a Session.
PendingConn == Cardinality({q \in Procs : req[q].pc = "c_insert"})

\* The chunks on their way to the upstream, oldest first: written, held
\* by the writer task, queued in the write-inbox.
WritePath(s) ==
    sess[s].wire \o (IF sess[s].wbuf = NoChunk THEN <<>> ELSE <<sess[s].wbuf>>)
                 \o sess[s].inbox

\* History value kept with a READ request: the number of FORWARD bytes
\* submitted so far, when no request is in flight, every one of them was
\* accepted by the open Session registered under the mark and the peer
\* is an echo server; 0 otherwise.
FwdSettled(m) ==
    LET s == registry[m] IN
    IF /\ s # 0
       /\ \A q \in Procs : req[q].pc \in {"idle", "done"}
       /\ sess[s].kind = "echo" /\ ~sess[s].closed /\ sess[s].up = "open"
       /\ nfwd >= 1
       /\ Len(FlattenD(WritePath(s))) = nfwd
    THEN nfwd ELSE 0

\* The commands handle_request dispatches to a handler.
Commands == {"CONNECT", "FORWARD", "READ", "DISCONNECT"}

\* What a request body can be: unreadable, empty, not base64, base64 of
\* zero bytes, or a frame (whose Cmd field may be absent: "").
BodyKinds == {"unreadable", "empty", "badbase64", "zero", "frame"}

\* The request never reaches a handler: the body yields no frame, or the
\* frame's Cmd matches none of the four arms.
IsCover(kind, cmd) == kind # "frame" \/ cmd \notin Commands

\* Faulty variant of CoverResponse: an encoded OK frame is sent.
CoverResponseFrame(cmd) ==
    [IdleReq EXCEPT !.pc = "done", !.cmd = cmd, !.body = "frame",
                    !.reply = [NoReply EXCEPT !.status = "OK"]]

\* `write_reponse(request, decoded_hello.to_vec()); return Ok(())`: the
\* body is the decoded NEO_HELLO and rinfo is never encoded.
CoverResponse(cmd) ==
    [IdleReq EXCEPT !.pc = "done", !.cmd = cmd, !.body = "hello"]

\* A request that is answered with the cover page.
Cover(p, kind, cmd) ==
    /\ req[p].pc \in {"idle", "done"}
    /\ IsCover(kind, cmd)
    /\ req' = [req EXCEPT ![p] = CoverResponse(IF kind = "frame" THEN cmd ELSE "")]
    /\ UNCHANGED <<registry, lock, nsess, nfwd, fwdSeq, sess, codec>>

\* A request arrives and is dispatched on its Cmd field.
Arrive(p, cmd, m, hasData) ==
    /\ req[p].pc \in {"idle", "done"}
    /\ \/ /\ cmd = "CONNECT" /\ ~hasData
          /\ req' = [req EXCEPT ![p] = NewReq(cmd, m, NoData, "c_connect")]
          /\ UNCHANGED nfwd
       \/ /\ cmd = "FORWARD" /\ ~hasData
          /\ req' = [req EXCEPT ![p] = NewReq(cmd, m, NoData, "f_lock")]
          /\ UNCHANGED nfwd
       \/ /\ cmd = "FORWARD" /\ hasData
          /\ Traffic < Budget
          /\ req' = [req EXCEPT ![p] = NewReq(cmd, m, <<nfwd + 1>>, "f_lock")]
          /\ nfwd' = nfwd + 1
       \/ /\ cmd = "READ" /\ ~hasData
          /\ req' = [req EXCEPT ![p] = [NewReq(cmd, m, NoData, "r_exists")
                                         EXCEPT !.tk = FwdSettled(m)]]
          /\ UNCHANGED nfwd
       \/ /\ cmd = "DISCONNECT" /\ ~hasData
          /\ req' = [req EXCEPT ![p] = NewReq(cmd, m, NoData, "d_lock")]
          /\ UNCHANGED nfwd
    /\ UNCHANGED <<registry, lock, nsess, fwdSeq, sess, codec>>

\* ------------------------------------------------------- the Sessions map
\* Faulty variant of MapInsert: the map is left as it is.
MapInsertNone(reg, m, s) == reg

\* `sessions.insert(mark, session)`
MapInsert(reg, m, s) == [reg EXCEPT ![m] = s]

\* Faulty variant of MapRemove: the entry stays.
MapRemoveNone(reg, m) == reg

\* Faulty variant of Lookup: an absent mark finds the first Session.
LookupFirst(reg, m) == IF reg[m] = 0 THEN 1 ELSE reg[m]

\* `sessions.get_mut(mark)`, `contains_key(mark)`, `get(mark)`: 0 for None.
Lookup(reg, m) == reg[m]

\* `sessions.remove(mark)`
MapRemove(reg, m) == [reg EXCEPT ![m] = 0]

\* ------------------------------------------------------- handle_connect
\* Faulty variant of ConnectWithin: a failed CONNECT removes the mark.
ConnectWithinClearing(p, n) ==
    /\ req[p].pc = "c_connect"
    /\ \/ /\ \E e \in {"Invalid address", "connect failed"} :
                req' = [req EXCEPT ![p] = Return(req[p], set_failure_response(e))]
          /\ registry' = MapRemove(registry, req[p].mark)
       \/ /\ nsess + PendingConn < n
          /\ req' = [req EXCEPT ![p].pc = "c_insert"]
          /\ UNCHANGED registry
    /\ UNCHANGED <<lock, nsess, nfwd, fwdSeq, sess, codec>>

\* The target does not parse, the connect fails or times out, or the
\* socket is connected.
ConnectWithin(p, n) ==
    /\ req[p].pc = "c_connect"
    /\ \/ \E e \in {"Invalid address", "connect failed"} :
             req' = [req EXCEPT ![p] = Return(req[p], set_failure_response(e))]
       \/ /\ nsess + PendingConn < n
          /\ req' = [req EXCEPT ![p].pc = "c_insert"]
    /\ UNCHANGED <<registry, lock, nsess, nfwd, fwdSeq, sess, codec>>

ConnectAttempt(p) == ConnectWithin(p, MaxSessions)

\* Faulty variant of ConnectInsert: the displaced Session is closed.
ConnectInsertClosing(p, k) ==
    /\ req[p].pc = "c_insert"
    /\ LockFree
    /\ nsess' = nsess + 1
    /\ sess' = [s \in AllSess |->
                 IF s = nsess + 1 THEN NewSession(k)
                 ELSE IF s = registry[req[p].mark] THEN [sess[s] EXCEPT !.closed = TRUE]
                 ELSE sess[s]]
    /\ registry' = [registry EXCEPT ![req[p].mark] = nsess + 1]
    /\ req' = [req EXCEPT ![p] = Return(req[p], [NoReply EXCEPT !.status = "OK"])]
    /\ UNCHANGED <<lock, nfwd, fwdSeq, codec>>

\* `sessions.lock().await.insert(mark, Session::new(conn))`: the displaced
\* Session, if any, is dropped, not closed.
ConnectInsert(p, k) ==
    /\ req[p].pc = "c_insert"
    /\ LockFree
    /\ nsess' = nsess + 1
    /\ sess' = [sess EXCEPT ![nsess + 1] = NewSession(k)]
    /\ registry' = MapInsert(registry, req[p].mark, nsess + 1)
    /\ req' = [req EXCEPT ![p] = Return(req[p], [NoReply EXCEPT !.status = "OK"])]
    /\ UNCHANGED <<lock, nfwd, fwdSeq, codec>>

\* ------------------------------------------------------- handle_forward
\* The guard is taken and kept; the Session is looked up with get_mut.
ForwardLock(p) ==
    /\ req[p].pc = "f_lock"
    /\ LockFree
    /\ \/ /\ Lookup(registry, req[p].mark) = 0
          /\ req' = [req EXCEPT ![p] =
                        Return(req[p], set_failure_response("Session not found"))]
          /\ UNCHANGED <<lock, fwdSeq>>
       \/ /\ Lookup(registry, req[p].mark) # 0 /\ req[p].data = NoData
          /\ req' = [req EXCEPT ![p] =
                        Return(req[p], set_failure_response("No data provided"))]
          /\ UNCHANGED <<lock, fwdSeq>>
       \/ /\ Lookup(registry, req[p].mark) # 0 /\ req[p].data # NoData
          /\ lock' = p
          /\ fwdSeq' = fwdSeq + 1
          /\ req' = [req EXCEPT ![p].pc = "w_check", ![p].s = Lookup(registry, req[p].mark),
                                ![p].tk = fwdSeq + 1]
    /\ UNCHANGED <<registry, nsess, nfwd, sess, codec>>

\* ---------------------------------------------------------- handle_read
\* `sessions.lock().await.contains_key(mark)`
ReadExists(p) ==
    /\ req[p].pc = "r_exists"
    /\ LockFree
    /\ req' = [req EXCEPT ![p] =
                 IF Lookup(registry, req[p].mark) = 0
                 THEN Return(req[p], set_failure_response("Session not found"))
                 ELSE [req[p] EXCEPT !.pc = "r_get"]]
    /\ UNCHANGED <<registry, lock, nsess, nfwd, fwdSeq, sess, codec>>

\* `sessions.lock().await.get(mark).cloned()`
ReadGet(p) ==
    /\ req[p].pc = "r_get"
    /\ LockFree
    /\ req' = [req EXCEPT ![p] =
                 IF Lookup(registry, req[p].mark) = 0
                 THEN Return(req[p], set_failure_response("Session not found"))
                 ELSE [req[p] EXCEPT !.pc = "r_isclosed", !.s = Lookup(registry, req[p].mark),
                                     !.own = TRUE]]
    /\ UNCHANGED <<registry, lock, nsess, nfwd, fwdSeq, sess, codec>>

\* Faulty variant of ReadIsClosed: the flag is not looked at.
ReadIsClosedIgnored(p) ==
    /\ req[p].pc = "r_isclosed"
    /\ req' = [req EXCEPT ![p] = [req[p] EXCEPT !.pc = "rd_snap", !.reply.status = "OK"]]
    /\ UNCHANGED <<registry, lock, nsess, nfwd, fwdSeq, sess, codec>>

\* `if session.is_closed().await { FAIL } else { Status = OK; read_async }`
ReadIsClosed(p) ==
    /\ req[p].pc = "r_isclosed"
    /\ req' = [req EXCEPT ![p] =
                 IF sess[req[p].s].closed
                 THEN Return(req[p], set_failure_response("Session is closed"))
                 ELSE [req[p] EXCEPT !.pc = "rd_snap", !.reply.status = "OK"]]
    /\ UNCHANGED <<registry, lock, nsess, nfwd, fwdSeq, sess, codec>>

\* ---------------------------------------------------- handle_disconnect
\* The guard is taken and kept; `sessions.remove(mark)`.
DisconnectLock(p) ==
    /\ req[p].pc = "d_lock"
    /\ LockFree
    /\ \/ /\ registry[req[p].mark] = 0
          /\ req' = [req EXCEPT ![p] = Return(req[p], [NoReply EXCEPT !.status = "OK"])]
          /\ UNCHANGED <<lock, registry>>
       \/ /\ registry[req[p].mark] # 0
          /\ lock' = p
          /\ registry' = MapRemove(registry, req[p].mark)
          /\ req' = [req EXCEPT ![p].pc = "cl_set", ![p].s = registry[req[p].mark],
                                ![p].own = TRUE]
    /\ UNCHANGED <<nsess, nfwd, fwdSeq, sess, codec>>

\* ------------------------------------------------------------ the server
Workers ==
    \E s \in SessIds :
        \/ ReaderCheck(s) \/ ReaderRead(s) \/ ReaderSend(s)
        \/ WriterRecv(s) \/ WriterCheck(s) \/ WriterWrite(s)

Upstream ==
    \E s \in SessIds :
        \/ UpSend(s)
        \/ UpEcho(s) \/ UpClose(s) \/ UpReset(s)

SessionOps ==
    \E p \in Procs :
        \/ WriteCheck(p) \/ WriteSend(p)
        \/ ReadSnap(p) \/ ReadDrain(p) \/ ReadWait(p)
        \/ Close(p)

\* Client 1 opens, polls and closes the mark (CONNECT, READ, DISCONNECT);
\* the other clients FORWARD to it, with or without Data.
Handlers ==
    \E p \in Procs :
        \/ \E m \in Marks :
              \/ (p = 1 /\ \E cmd \in {"CONNECT", "READ", "DISCONNECT"} :
                               Arrive(p, cmd, m, FALSE))
              \/ (p # 1 /\ \E hasData \in BOOLEAN : Arrive(p, "FORWARD", m, hasData))
        \/ ConnectAttempt(p)
        \/ \E k \in {"echo", "source"} : ConnectInsert(p, k)
        \/ ForwardLock(p)
        \/ ReadExists(p) \/ ReadGet(p) \/ ReadIsClosed(p)
        \/ DisconnectLock(p)

\* ------------------------------------------- the Session API used directly
\* A task that owns the Session calls one of its public methods, as the
\* unit tests of session.rs do.
Call(p, op) ==
    /\ req[p].pc \in {"idle", "done"}
    /\ \/ /\ op = "write"
          /\ \E n \in 1..MaxBytes :
                /\ Traffic + n <= MaxBytes
                /\ req' = [req EXCEPT ![p] = [req[p] EXCEPT !.pc = "w_check",
                                !.cmd = op, !.data = [i \in 1..n |-> nfwd + i],
                                !.tk = nfwd + 1, !.res = "", !.reply = NoReply]]
                /\ nfwd' = nfwd + n
       \/ /\ op = "read"
          /\ req' = [req EXCEPT ![p] = [req[p] EXCEPT !.pc = "rd_snap", !.cmd = op,
                          !.snap = FALSE, !.res = "", !.reply = NoReply]]
          /\ UNCHANGED nfwd
       \/ /\ op = "close"
          /\ req' = [req EXCEPT ![p] = [req[p] EXCEPT !.pc = "cl_set", !.cmd = op,
                          !.res = "", !.reply = NoReply]]
          /\ UNCHANGED nfwd
       \/ /\ op = "is_closed"
          /\ req' = [req EXCEPT ![p] = [req[p] EXCEPT !.pc = "ic", !.cmd = op,
                          !.res = "", !.reply = NoReply]]
          /\ UNCHANGED nfwd
    /\ UNCHANGED <<registry, lock, nsess, fwdSeq, sess, codec>>

\* Session::is_closed: `*self.closed.lock().await`
IsClosed(p) ==
    /\ req[p].pc = "ic"
    /\ req' = [req EXCEPT ![p] =
                 ApiReturn(req[p], IF sess[req[p].s].closed THEN "true" ELSE "false", NoData)]
    /\ UNCHANGED <<registry, lock, nsess, nfwd, fwdSeq, sess, codec>>

\* Task 1 writes, closes and asks is_closed; every task reads.
Callers ==
    \E p \in Procs :
        \/ (p = 1 /\ \E op \in {"write", "close", "is_closed"} : Call(p, op))
        \/ Call(p, "read")
        \/ IsClosed(p)

\* One Session built by Session::new on a connected socket and owned by
\* the calling tasks; no registry.
InitS ==
    /\ registry = [m \in Marks |-> 0]
    /\ lock = 0
    /\ nsess = 1
    /\ nfwd = 0
    /\ fwdSeq = 0
    /\ \E k \in {"echo", "source"} :
          sess = [s \in AllSess |-> IF s = 1 THEN NewSession(k) ELSE NoSession]
    /\ req = [p \in Procs |-> [IdleReq EXCEPT !.s = 1, !.own = TRUE]]
    /\ codec = NoCodec

NextS == Callers \/ SessionOps \/ Workers \/ Upstream

SpecS == InitS /\ [][NextS]_vars

\* The tokio runtime polls every ready task again, the echo peer answers
\* what it received, and the owner of the Session keeps calling read.
FairS ==
    /\ \A s \in SessIds :
          /\ WF_vars(ReaderCheck(s) \/ ReaderRead(s) \/ ReaderSend(s))
          /\ WF_vars(WriterRecv(s) \/ WriterCheck(s) \/ WriterWrite(s))
          /\ WF_vars(UpEcho(s))
    /\ \A p \in Procs :
          WF_vars(\/ WriteCheck(p) \/ WriteSend(p)
                  \/ ReadSnap(p) \/ ReadDrain(p) \/ ReadWait(p)
                  \/ Close(p))
    /\ SF_vars(\E p \in Procs : Call(p, "read"))

\* The same Session on a socket whose peer is an echo server, which may
\* close its side.
InitEcho == InitS /\ sess[1].kind = "echo"

UpstreamEcho == \E s \in SessIds : UpEcho(s) \/ UpClose(s)

\* Task 1 writes and closes; every task reads.
CallersEcho ==
    \E p \in Procs :
        \/ (p = 1 /\ \E op \in {"write", "close"} : Call(p, op))
        \/ Call(p, "read")

NextEcho == CallersEcho \/ SessionOps \/ Workers \/ UpstreamEcho

SpecEcho == InitEcho /\ [][NextEcho]_vars /\ FairS

Next == Handlers \/ SessionOps \/ Workers \/ Upstream

Spec == Init /\ [][Next]_vars

\* The server in front of an echo peer that stays up, with clients that
\* CONNECT, FORWARD and keep polling with READ.
HandlersFwd ==
    \E p \in Procs :
        \/ \E m \in Marks : \/ Arrive(p, "CONNECT", m, FALSE)
                             \/ Arrive(p, "FORWARD", m, TRUE)
                             \/ Arrive(p, "READ", m, FALSE)
        \/ ConnectAttempt(p)
        \/ ConnectInsert(p, "echo")
        \/ ForwardLock(p)
        \/ ReadExists(p) \/ ReadGet(p) \/ ReadIsClosed(p)

SessionOpsFwd ==
    \E p \in Procs :
        \/ WriteCheck(p) \/ WriteSend(p)
        \/ ReadSnap(p) \/ ReadDrain(p) \/ ReadWait(p)

NextFwd == HandlersFwd \/ SessionOpsFwd \/ Workers \/ (\E s \in SessIds : UpEcho(s))

\* Every spawned task and every request handler is polled again when it
\* can run, the peer answers, and READ requests keep coming.
FairFwd ==
    /\ \A s \in SessIds :
          /\ WF_vars(ReaderCheck(s) \/ ReaderRead(s) \/ ReaderSend(s))
          /\ WF_vars(WriterRecv(s) \/ WriterCheck(s) \/ WriterWrite(s))
          /\ WF_vars(UpEcho(s))
    /\ \A p \in Procs :
          WF_vars(\/ ConnectAttempt(p) \/ ConnectInsert(p, "echo")
                  \/ ForwardLock(p) \/ WriteCheck(p) \/ WriteSend(p)
                  \/ ReadExists(p) \/ ReadGet(p) \/ ReadIsClosed(p)
                  \/ ReadSnap(p) \/ ReadDrain(p) \/ ReadWait(p))
    /\ SF_vars(\E p \in Procs, m \in Marks : Arrive(p, "READ", m, FALSE))

SpecFwd == Init /\ [][NextFwd]_vars /\ FairFwd

\* The server in front of a peer that stays connected, sends nothing and
\* has stopped reading; client 1 opens, polls and closes the mark and the
\* other clients FORWARD to it.
HandlersLive ==
    \E p \in Procs :
        \/ \E m \in Marks :
              \/ (p = 1 /\ \E cmd \in {"CONNECT", "READ", "DISCONNECT"} :
                               Arrive(p, cmd, m, FALSE))
              \/ (p # 1 /\ \E hasData \in BOOLEAN : Arrive(p, "FORWARD", m, hasData))
        \/ ConnectAttempt(p)
        \/ ConnectInsert(p, "stalled")
        \/ ForwardLock(p)
        \/ ReadExists(p) \/ ReadGet(p) \/ ReadIsClosed(p)
        \/ DisconnectLock(p)

WorkersLive ==
    \E s \in SessIds :
        \/ ReaderCheck(s)
        \/ WriterRecv(s) \/ WriterCheck(s) \/ WriterWrite(s)

NextLive == HandlersLive \/ SessionOps \/ WorkersLive

\* Every spawned task and every request handler is polled again when it
\* can run, and tokio's Mutex hands the lock to its waiters in turn;
\* nothing is assumed of the clients or of the peer.
FairLive ==
    /\ \A s \in SessIds :
          /\ WF_vars(ReaderCheck(s))
          /\ WF_vars(WriterRecv(s) \/ WriterCheck(s) \/ WriterWrite(s))
    /\ \A p \in Procs :
          SF_vars(\/ ConnectAttempt(p) \/ ConnectInsert(p, "stalled")
                  \/ ForwardLock(p) \/ WriteCheck(p) \/ WriteSend(p)
                  \/ ReadExists(p) \/ ReadGet(p) \/ ReadIsClosed(p)
                  \/ ReadSnap(p) \/ ReadDrain(p) \/ ReadWait(p)
                  \/ DisconnectLock(p) \/ Close(p))

SpecLive == Init /\ [][NextLive]_vars /\ FairLive

\* The server with one client that CONNECTs, also on a mark in use, while
\* the other clients poll with READ, in front of peers that send on their
\* own.
HandlersRe ==
    \E p \in Procs :
        \/ \E m \in Marks : \/ (p = 1 /\ Arrive(p, "CONNECT", m, FALSE))
                             \/ (p # 1 /\ Arrive(p, "READ", m, FALSE))
        \/ ConnectWithin(p, MaxReconnects)
        \/ ConnectInsert(p, "source")
        \/ ReadExists(p) \/ ReadGet(p) \/ ReadIsClosed(p)
        \/ ReadSnap(p) \/ ReadDrain(p) \/ ReadWait(p)

WorkersRe ==
    \E s \in AllSess :
        \/ ReaderCheck(s) \/ ReaderRead(s) \/ ReaderSend(s)
        \/ WriterRecv(s)
        \/ UpSend(s) \/ UpClose(s) \/ UpReset(s)

NextRe == HandlersRe \/ WorkersRe

SpecRe == Init /\ [][NextRe]_vars

\* The server with clients that also send requests that are no command,
\* in front of peers that send on their own, close or reset; client 1
\* opens, polls and closes the mark and the other clients FORWARD.
Covers ==
    \E p \in Procs : \E kind \in BodyKinds :
        \E cmd \in (IF kind = "frame" THEN {"", "NOPE", "READ"} ELSE {""}) :
            Cover(p, kind, cmd)

HandlersCover ==
    \E p \in Procs :
        \/ \E m \in Marks :
              \/ (p = 1 /\ \E cmd \in {"CONNECT", "READ", "DISCONNECT"} :
                               Arrive(p, cmd, m, FALSE))
              \/ (p # 1 /\ \E hasData \in BOOLEAN : Arrive(p, "FORWARD", m, hasData))
        \/ ConnectAttempt(p)
        \/ ConnectInsert(p, "source")
        \/ ForwardLock(p)
        \/ ReadExists(p) \/ ReadGet(p) \/ ReadIsClosed(p)
        \/ DisconnectLock(p)

UpstreamCover == \E s \in SessIds : UpSend(s) \/ UpClose(s) \/ UpReset(s)

NextCover == Covers \/ HandlersCover \/ SessionOps \/ Workers \/ UpstreamCover

SpecCover == Init /\ [][NextCover]_vars

\* The server with one client that CONNECTs, also on a mark in use, and
\* DISCONNECTs, while the other clients READ and send FORWARDs without
\* Data, and all send requests that are no command, in front of peers
\* that send nothing and close or reset.
HandlersReg ==
    \E p \in Procs :
        \/ \E m \in Marks :
              \/ (p = 1 /\ \E cmd \in {"CONNECT", "DISCONNECT"} : Arrive(p, cmd, m, FALSE))
              \/ (p # 1 /\ \E cmd \in {"READ", "FORWARD"} : Arrive(p, cmd, m, FALSE))
        \/ ConnectWithin(p, MaxReconnects)
        \/ ConnectInsert(p, "source")
        \/ ForwardLock(p)
        \/ ReadExists(p) \/ ReadGet(p) \/ ReadIsClosed(p)
        \/ ReadSnap(p) \/ ReadDrain(p) \/ ReadWait(p)
        \/ DisconnectLock(p) \/ Close(p)

WorkersReg ==
    \E s \in AllSess :
        \/ ReaderCheck(s) \/ ReaderRead(s)
        \/ WriterRecv(s)
        \/ UpClose(s) \/ UpReset(s)

NextReg == Covers \/ HandlersReg \/ WorkersReg

SpecReg == Init /\ [][NextReg]_vars

\* The server with one client that CONNECTs, also on a mark in use, and
\* DISCONNECTs, while the other clients FORWARD, in front of peers that
\* send, close or reset: every way a task of a Session can end.
HandlersEnd ==
    \E p \in Procs :
        \/ \E m \in Marks :
              \/ (p = 1 /\ Arrive(p, "CONNECT", m, FALSE))
              \/ (p = 1 /\ Arrive(p, "DISCONNECT", m, FALSE))
              \/ (p # 1 /\ Arrive(p, "FORWARD", m, TRUE))
        \/ ConnectWithin(p, MaxReconnects)
        \/ ConnectInsert(p, "source")
        \/ ForwardLock(p)
        \/ WriteCheck(p) \/ WriteSend(p)
        \/ DisconnectLock(p) \/ Close(p)

WorkersEnd ==
    \E s \in AllSess :
        \/ ReaderCheck(s) \/ ReaderRead(s) \/ ReaderSend(s)
        \/ WriterRecv(s) \/ WriterCheck(s) \/ WriterWrite(s)
        \/ UpSend(s) \/ UpClose(s) \/ UpReset(s)

NextEnd == HandlersEnd \/ WorkersEnd

SpecEnd == Init /\ [][NextEnd]_vars

\* The server with one client that CONNECTs, also on a mark in use, while
\* the other clients FORWARD and READ, in front of peers that send, close
\* or reset; no Session is ever closed by a DISCONNECT.
HandlersOpen ==
    \E p \in Procs :
        \/ \E m \in Marks :
              \/ (p = 1 /\ Arrive(p, "CONNECT", m, FALSE))
              \/ (p # 1 /\ Arrive(p, "FORWARD", m, TRUE))
              \/ (p # 1 /\ Arrive(p, "READ", m, FALSE))
        \/ ConnectWithin(p, MaxReconnects)
        \/ ConnectInsert(p, "source")
        \/ ForwardLock(p)
        \/ WriteCheck(p) \/ WriteSend(p)
        \/ ReadExists(p) \/ ReadGet(p) \/ ReadIsClosed(p)
        \/ ReadSnap(p) \/ ReadDrain(p) \/ ReadWait(p)

NextOpen == HandlersOpen \/ WorkersEnd

SpecOpen == Init /\ [][NextOpen]_vars

\* The standard base64 alphabet and its permutation, as character codes.
EN ==
    <<65, 66, 67, 68, 69, 70, 71, 72, 73, 74, 75, 76, 77, 78, 79, 80, 81, 82,
      83, 84, 85, 86, 87, 88, 89, 90, 97, 98, 99, 100, 101, 102, 103, 104, 105,
      106, 107, 108, 109, 110, 111, 112, 113, 114, 115, 116, 117, 118, 119,
      120, 121, 122, 48, 49, 50, 51, 52, 53, 54, 55, 56, 57, 43, 47>>

DE ==
    <<100, 104, 85, 76, 78, 86, 71, 115, 117, 65, 107, 47, 77, 120, 72, 54,
      105, 98, 106, 99, 69, 102, 82, 113, 68, 87, 89, 122, 110, 88, 66, 101,
      57, 80, 108, 55, 43, 83, 75, 111, 90, 56, 112, 74, 97, 73, 67, 103, 114,
      81, 79, 48, 109, 70, 50, 49, 121, 118, 51, 52, 53, 119, 116, 84>>

BLV_OFFSET == 1966546385

\* The HashMap left by `insert(K[i], V[i])` for i = 0, 1, ...: a later
\* insert of the same key replaces the earlier one.
MapFrom(K, V) ==
    [c \in {K[i] : i \in 1..Len(K)} |->
        V[CHOOSE i \in 1..Len(K) : K[i] = c /\ \A j \in (i + 1)..Len(K) : K[j] # c]]

en_map == MapFrom(EN, DE)

\* Faulty variant of de_map: built in the direction of en_map.
de_mapForward == MapFrom(EN, DE)

de_map == MapFrom(DE, EN)

\* `map.get(&b).copied().unwrap_or(b)` for every byte of the text.
Substitute(map, data) ==
    [i \in 1..Len(data) |-> IF data[i] \in DOMAIN map THEN map[data[i]] ELSE data[i]]

\* The STANDARD engine of the base64 crate: encoding with '=' (61) padding.
RECURSIVE StdEncode(_)
StdEncode(raw) ==
    IF raw = <<>> THEN <<>>
    ELSE IF Len(raw) = 1
    THEN <<EN[raw[1] \div 4 + 1], EN[(raw[1] % 4) * 16 + 1], 61, 61>>
    ELSE IF Len(raw) = 2
    THEN <<EN[raw[1] \div 4 + 1], EN[(raw[1] % 4) * 16 + raw[2] \div 16 + 1],
           EN[(raw[2] % 16) * 4 + 1], 61>>
    ELSE <<EN[raw[1] \div 4 + 1], EN[(raw[1] % 4) * 16 + raw[2] \div 16 + 1],
           EN[(raw[2] % 16) * 4 + raw[3] \div 64 + 1], EN[(raw[3] % 64) + 1]>>
         \o StdEncode(SubSeq(raw, 4, Len(raw)))

InAlphabet(c) == \E i \in 1..Len(EN) : EN[i] = c

Sextet(c) == (CHOOSE i \in 1..Len(EN) : EN[i] = c) - 1

DecodeError == [ok |-> FALSE, v |-> <<>>]

OkBytes(v) == [ok |-> TRUE, v |-> v]

\* The STANDARD engine's decoding: groups of four characters, canonical
\* padding in the last group only, no stray bits; anything else is a
\* DecodeError.
RECURSIVE StdDecode(_)
StdDecode(t) ==
    IF t = <<>> THEN OkBytes(<<>>)
    ELSE IF Len(t) < 4 THEN DecodeError
    ELSE IF ~InAlphabet(t[1]) \/ ~InAlphabet(t[2]) THEN DecodeError
    ELSE IF t[3] = 61
    THEN IF Len(t) = 4 /\ t[4] = 61 /\ Sextet(t[2]) % 16 = 0
         THEN OkBytes(<<Sextet(t[1]) * 4 + Sextet(t[2]) \div 16>>)
         ELSE DecodeError
    ELSE IF ~InAlphabet(t[3]) THEN DecodeError
    ELSE IF t[4] = 61
    THEN IF Len(t) = 4 /\ Sextet(t[3]) % 4 = 0
         THEN OkBytes(<<Sextet(t[1]) * 4 + Sextet(t[2]) \div 16,
                        (Sextet(t[2]) % 16) * 16 + Sextet(t[3]) \div 4>>)
         ELSE DecodeError
    ELSE IF ~InAlphabet(t[4]) THEN DecodeError
    ELSE LET rest == StdDecode(SubSeq(t, 5, Len(t))) IN
         IF rest.ok
         THEN OkBytes(<<Sextet(t[1]) * 4 + Sextet(t[2]) \div 16,
                        (Sextet(t[2]) % 16) * 16 + Sextet(t[3]) \div 4,
                        (Sextet(t[3]) % 4) * 64 + Sextet(t[4])>> \o rest.v)
         ELSE DecodeError

\* Codec::base64_encode
base64_encode(rawdata) == Substitute(en_map, StdEncode(rawdata))

\* Codec::base64_decode
base64_decode(data) == StdDecode(Substitute(de_map, data))

\* BlvMap: a function from the keys present to their values.
EmptyMap == <<>>

\* `info.insert(b, v)`
MapPut(info, b, v) ==
    [k \in DOMAIN info \cup {b} |-> IF k = b THEN v ELSE info[k]]

\* `i32::to_be_bytes`
BE32(n) ==
    <<(n \div 16777216) % 256, (n \div 65536) % 256, (n \div 256) % 256, n % 256>>

\* `i32::from_be_bytes`
FromBE32(q) ==
    (IF q[1] >= 128 THEN q[1] - 256 ELSE q[1]) * 16777216
        + q[2] * 65536 + q[3] * 256 + q[4]

\* `i32::from_be_bytes(l_bytes) - BLV_OFFSET` leaves the i32 range when
\* the field is below BLV_OFFSET - 2^31.
SubOverflows(raw) == raw < (BLV_OFFSET - 2147483647) - 1

\* The difference a build without overflow checks computes: raw -
\* BLV_OFFSET modulo 2^32, taken as an i32.
SubWrapping(raw) ==
    IF SubOverflows(raw)
    THEN ((raw + 2147483647) + 1) + ((2147483647 - BLV_OFFSET) + 1)
    ELSE raw - BLV_OFFSET

\* read_and_decode_length with the 0-based cursor of the code; the cursor
\* of the caller has moved on by 4 when the result is Ok. With overflow
\* checks (`checks`, the default of a debug build) a subtraction that
\* overflows panics; without them (a release build) it wraps.
read_and_decode_length(data, cursor, checks) ==
    IF cursor + 4 > Len(data) THEN [ok |-> FALSE, l |-> 0, panic |-> FALSE]
    ELSE LET raw == FromBE32(SubSeq(data, cursor + 1, cursor + 4))
             l == SubWrapping(raw) IN
         IF checks /\ SubOverflows(raw) THEN [ok |-> FALSE, l |-> 0, panic |-> TRUE]
         ELSE IF l < 0 THEN [ok |-> FALSE, l |-> 0, panic |-> FALSE]
         ELSE [ok |-> TRUE, l |-> l, panic |-> FALSE]

\* Faulty variant of blv_decode_from: a value cut short is taken as far as
\* it goes.
RECURSIVE blv_decode_fromGreedy(_, _, _, _)
blv_decode_fromGreedy(data, cursor, info, checks) ==
    IF cursor >= Len(data) THEN [info |-> info, panic |-> FALSE]
    ELSE LET b == data[cursor + 1]
             r == read_and_decode_length(data, cursor + 1, checks) IN
         IF r.panic THEN [info |-> EmptyMap, panic |-> TRUE]
         ELSE IF ~r.ok THEN [info |-> info, panic |-> FALSE]
         ELSE IF r.l > Len(data) - (cursor + 5)
         THEN [info |-> MapPut(info, b, SubSeq(data, cursor + 6, Len(data))),
               panic |-> FALSE]
         ELSE blv_decode_fromGreedy(data, cursor + 5 + r.l,
                  MapPut(info, b, SubSeq(data, cursor + 6, cursor + 5 + r.l)), checks)

\* The loop of Codec::blv_decode from the given cursor on: the map built,
\* or the panic of read_and_decode_length, which leaves no map.
RECURSIVE blv_decode_from(_, _, _, _)
blv_decode_from(data, cursor, info, checks) ==
    IF cursor >= Len(data) THEN [info |-> info, panic |-> FALSE]
    ELSE LET b == data[cursor + 1]
             r == read_and_decode_length(data, cursor + 1, checks) IN
         IF r.panic THEN [info |-> EmptyMap, panic |-> TRUE]
         ELSE IF ~r.ok THEN [info |-> info, panic |-> FALSE]
         ELSE IF r.l > Len(data) - (cursor + 5) THEN [info |-> info, panic |-> FALSE]
         ELSE blv_decode_from(data, cursor + 5 + r.l,
                  MapPut(info, b, SubSeq(data, cursor + 6, cursor + 5 + r.l)), checks)

\* Codec::blv_decode
blv_decode(data, checks) == blv_decode_from(data, 0, EmptyMap, checks)

\* The lengths rand_byte can choose, `rng.random_range(5..20)`.
RandLengths == 5..19

\* Results of rand_byte taken into account: the shortest and the longest,
\* filled with one byte value.
RandBytes == {[i \in 1..n |-> 0] : n \in {5, 19}}

\* `info.insert(Random1, rand_byte()); info.insert(Random2, rand_byte())`
Padded(info, r0, r39) == MapPut(MapPut(info, 0, r0), 39, r39)

\* Faulty variant of EncodeRecord: the length goes out without the bias.
EncodeRecordNoBias(b, v) == <<b % 256>> \o BE32(Len(v)) \o v

\* One record: `b as u8`, the biased length, the value.
EncodeRecord(b, v) == <<b % 256>> \o BE32(Len(v) + BLV_OFFSET) \o v

\* `for (&b, v) in &info`, the HashMap yielding its keys in `order`.
RECURSIVE EncodeInOrder(_, _)
EncodeInOrder(info, order) ==
    IF order = <<>> THEN <<>>
    ELSE EncodeRecord(Head(order), info[Head(order)]) \o EncodeInOrder(info, Tail(order))

\* The orders in which a HashMap with key set S can be iterated.
Orders(S) ==
    {o \in [1..Cardinality(S) -> S] : \A i, j \in 1..Cardinality(S) : i # j => o[i] # o[j]}

\* Byte strings handed to base64_encode.
SampleBytes == {0, 90, 165, 255}

RawInputs == UNION {[1..n -> SampleBytes] : n \in 0..MaxRaw}

\* Frames handed to blv_encode: keys of one byte and one wider key, the
\* values of a Status field.
FrameTags == {1, 255, 256}

FieldValues == {<<>>, <<79>>, <<79, 75>>}

Frames ==
    UNION {[D -> FieldValues] : D \in {T \in SUBSET FrameTags : Cardinality(T) <= MaxFields}}

\* Length fields a received frame can carry, as the i32 the four bytes
\* spell: the bias itself and its neighbours, zero, -1, both ends of the
\* i32 range, and the two values on either side of the point below which
\* the subtraction overflows.
LengthFields ==
    {BLV_OFFSET, BLV_OFFSET + 1, BLV_OFFSET - 1, 0, -1, 2147483647,
     (-2147483647) - 1, (BLV_OFFSET - 2147483647) - 1, (BLV_OFFSET - 2147483647) - 2}

\* One record as it can arrive: any tag, any length field, some bytes.
WireRecords ==
    {<<b>> \o BE32(raw) \o v : b \in {1, 2}, raw \in LengthFields, v \in {<<>>, <<79>>}}

RECURSIVE WireFrames(_)
WireFrames(n) ==
    IF n = 0 THEN {<<>>}
    ELSE WireFrames(n - 1) \cup {f \o r : f \in WireFrames(n - 1), r \in WireRecords}

\* A test calls one encoder on an input and the decoder on its output,
\* the whole of it or an initial part.
InitCodec ==
    /\ registry = [m \in Marks |-> 0]
    /\ lock = 0
    /\ nsess = 0
    /\ nfwd = 0
    /\ fwdSeq = 0
    /\ sess = [s \in AllSess |-> NoSession]
    /\ req = [p \in Procs |-> IdleReq]
    /\ \/ \E raw \in RawInputs : codec = [NoCodec EXCEPT !.op = "b64_input", !.raw = raw]
       \/ \E info \in Frames, r0 \in RandBytes, r39 \in RandBytes :
             \E order \in Orders(DOMAIN Padded(info, r0, r39)) :
                codec = [NoCodec EXCEPT !.op = "blv_input", !.info = info,
                                        !.padded = Padded(info, r0, r39),
                                        !.order = order]
       \/ \E buf \in WireFrames(MaxFields) :
             codec = [NoCodec EXCEPT !.op = "blv_received", !.buf = buf]

Base64Encode ==
    /\ codec.op = "b64_input"
    /\ codec' = [codec EXCEPT !.op = "b64_encoded", !.text = base64_encode(codec.raw)]
    /\ UNCHANGED <<registry, lock, nsess, nfwd, fwdSeq, sess, req>>

Base64Decode ==
    /\ codec.op = "b64_encoded"
    /\ codec' = [codec EXCEPT !.op = "b64_decoded", !.res = base64_decode(codec.text)]
    /\ UNCHANGED <<registry, lock, nsess, nfwd, fwdSeq, sess, req>>

BlvEncode ==
    /\ codec.op = "blv_input"
    /\ codec' = [codec EXCEPT !.op = "blv_encoded",
                              !.buf = EncodeInOrder(codec.padded, codec.order)]
    /\ UNCHANGED <<registry, lock, nsess, nfwd, fwdSeq, sess, req>>

\* blv_decode on the first k bytes of the encoding (all of it: k = len).
BlvDecode ==
    /\ codec.op = "blv_encoded"
    /\ \E k \in 0..Len(codec.buf), checks \in BOOLEAN :
          LET r == blv_decode(SubSeq(codec.buf, 1, k), checks) IN
          codec' = [codec EXCEPT !.op = "blv_decoded", !.cut = k,
                                 !.out = r.info, !.panicked = r.panic]
    /\ UNCHANGED <<registry, lock, nsess, nfwd, fwdSeq, sess, req>>

\* blv_decode on a request body as handle_request receives it, in a build
\* with overflow checks or in one without.
BlvDecodeReceived ==
    /\ codec.op = "blv_received"
    /\ \E checks \in BOOLEAN :
          LET r == blv_decode(codec.buf, checks) IN
          codec' = [codec EXCEPT !.op = "blv_received_decoded", !.cut = Len(codec.buf),
                                 !.out = r.info, !.panicked = r.panic]
    /\ UNCHANGED <<registry, lock, nsess, nfwd, fwdSeq, sess, req>>

NextCodec == Base64Encode \/ Base64Decode \/ BlvEncode \/ BlvDecode \/ BlvDecodeReceived

SpecCodec == InitCodec /\ [][NextCodec]_vars

\* ================================================================ claims
InSessionCall(p) ==
    req[p].pc \in {"w_check", "w_send", "rd_snap", "rd_lock", "rd_wait", "cl_set"}

\* C1: no handler holds the Sessions mutex while it is inside a Session
\* write, read or close call.
C1_LockOnlyForMap == \A p \in Procs : lock = p => ~InSessionCall(p)

\* Tickets (places in the order of mutex acquisition) of a chunk sequence.
Tickets(q) == [i \in 1..Len(q) |-> q[i].t]

Increasing(q) == \A i, j \in 1..Len(q) : i < j => q[i] < q[j]

\* The chunks of a Session from the wire back to the tail of the inbox.
\* C2: the chunks written to the upstream socket, followed by the chunk
\* the writer holds and the chunks queued in the write-inbox, are in the
\* order in which their FORWARDs acquired the Sessions mutex.
C2_WriteOrder == \A s \in SessIds : Increasing(Tickets(WritePath(s)))

\* Two FORWARDs whose chunks are on the wire, the one that arrived second
\* having taken the mutex first.
C2_Witness ==
    \E s \in SessIds :
        /\ Len(sess[s].wire) = 2
        /\ sess[s].wire[1].d = <<2>> /\ sess[s].wire[1].t = 1
        /\ sess[s].wire[2].d = <<1>> /\ sess[s].wire[2].t = 2

\* C3: the Data of the successful reads of a Session, concatenated in the
\* order of the drains, is a prefix of the byte stream the upstream
\* produced.
C3_ReadOrder == \A s \in SessIds : IsPrefix(sess[s].readLog, sess[s].arrived)

\* Two READ handlers that each returned one of two bytes of a Session.
C3_Witness ==
    /\ \A p \in Procs : req[p].cmd = "READ" /\ req[p].pc = "done"
                        /\ req[p].reply.status = "OK" /\ Len(req[p].reply.data) = 1
                        /\ req[p].reply.data # NoData
    /\ \E s \in SessIds : Len(sess[s].readLog) = 2

\* C4: on a Session whose upstream reached EOF (and on which close() was
\* never called), a READ reports failure only when no buffered chunk is
\* left in the read-outbox: the buffered bytes are returned first.
C4_NoFailureBeforeDrained ==
    [][\A p \in Procs :
          (req[p].pc = "r_isclosed" /\ req'[p].pc = "done"
             /\ req'[p].reply.status = "FAIL"
             /\ sess[req[p].s].up = "fin" /\ ~sess[req[p].s].closeRet)
          => sess[req[p].s].outbox = <<>>]_vars

\* C5: once true, the closed flag of a Session stays true.
C5_ClosedMonotonic ==
    [][\A s \in SessIds : sess[s].closed => sess'[s].closed]_vars

\* A Session closed by the reader task at EOF on which a DISCONNECT then
\* called close().
C5_Witness ==
    \E s \in SessIds : sess[s].closed /\ sess[s].closeRet /\ sess[s].up = "fin"
                       /\ sess[s].rpc = "done"

\* C6: a write whose closed check runs after a close() call has returned
\* fails with SessionClosed and leaves the write-inbox as it was.
C6_WriteAfterClose ==
    [][\A p \in Procs :
          (req[p].pc = "w_check" /\ req'[p].pc # "w_check"
             /\ sess[req[p].s].closeRet)
          => /\ req'[p].pc = "done"
             /\ req'[p].res = "SessionClosed"
             /\ sess'[req[p].s].inbox = sess[req[p].s].inbox]_vars

\* close() returned, then a write_async call returned SessionClosed.
C6_Witness ==
    \E p \in Procs : /\ req[p].cmd = "write" /\ req[p].pc = "done"
                     /\ req[p].res = "SessionClosed"
                     /\ sess[req[p].s].closeRet

\* C7: a read that found the closed flag true returns without waiting:
\* Ok with the concatenation of all buffered chunks when the read-outbox
\* holds any, SessionClosed when it is empty; the outbox is empty after.
C7_ReadOnClosed ==
    [][\A p \in Procs :
          (req[p].pc = "rd_lock" /\ req'[p].pc # "rd_lock" /\ req[p].snap)
          => /\ req'[p].pc = "done"
             /\ sess'[req[p].s].outbox = <<>>
             /\ IF sess[req[p].s].outbox = <<>>
                THEN req'[p].res = "SessionClosed"
                ELSE /\ req'[p].res = "Ok"
                     /\ req'[p].reply.data = Flatten(sess[req[p].s].outbox)]_vars

\* On a closed Session one read returned the buffered bytes and a later
\* one SessionClosed.
C7_Witness ==
    \E p, q \in Procs :
        /\ req[p].cmd = "read" /\ req[p].pc = "done" /\ req[p].snap
        /\ req[p].res = "Ok" /\ req[p].reply.data = <<1, 2>>
        /\ req[q].cmd = "read" /\ req[q].pc = "done" /\ req[q].snap
        /\ req[q].res = "SessionClosed"

\* C8: a read of an open Session whose wait ends with the read-outbox
\* still empty returns Ok(empty), leaves the closed flag false and takes
\* nothing out of the socket, the reader task or the outbox.
C8_IdleRead ==
    [][\A p \in Procs :
          (req[p].pc = "rd_wait" /\ req'[p].pc # "rd_wait"
             /\ ~sess[req[p].s].closed /\ sess[req[p].s].outbox = <<>>)
          => /\ req'[p].res = "Ok"
             /\ req'[p].reply.data = <<>>
             /\ sess'[req[p].s] = [sess[req[p].s] EXCEPT !.rxLock = 0]]_vars

\* A read returned Ok(empty) on a Session that is still open; a byte that
\* arrived since is still on its way to a later read.
C8_Witness ==
    \E p \in Procs :
        /\ req[p].cmd = "read" /\ req[p].pc = "done"
        /\ req[p].res = "Ok" /\ req[p].reply.data = <<>>
        /\ ~sess[req[p].s].closed
        /\ sess[req[p].s].readLog = <<>> /\ sess[req[p].s].outbox = <<<<1>>>>

\* Byte b sits in a chunk that write_async has put on the write-inbox.
Accepted(s, b) ==
    \E i \in 1..Len(WritePath(s)) :
        \E j \in 1..Len(WritePath(s)[i].d) : WritePath(s)[i].d[j] = b

Delivered(s, b) == \E i \in 1..Len(sess[s].readLog) : sess[s].readLog[i] = b

\* C9: with an upstream that echoes, what the reads have returned so far
\* is always an initial part of what was written to the upstream (nothing
\* added or reordered), and every byte of an accepted write is returned
\* by some read unless the Session is closed or the upstream goes away.
C9_EchoRoundTrip ==
    /\ [](\A s \in SessIds :
             sess[s].kind = "echo" => IsPrefix(sess[s].readLog, FlattenD(sess[s].wire)))
    /\ \A s \in SessIds : \A b \in 1..MaxBytes :
          (sess[s].kind = "echo" /\ Accepted(s, b))
             ~> (Delivered(s, b) \/ sess[s].closed \/ sess[s].up # "open")

\* One write of two bytes came back split over two reads, the Session
\* still open.
C9_Witness ==
    \E s \in SessIds, p, q \in Procs :
        /\ sess[s].kind = "echo" /\ ~sess[s].closed /\ sess[s].up = "open"
        /\ Len(sess[s].wire) = 1 /\ sess[s].wire[1].d = <<1, 2>>
        /\ sess[s].readLog = <<1, 2>>
        /\ req[p].cmd = "read" /\ req[p].pc = "done" /\ req[p].reply.data = <<1>>
        /\ req[q].cmd = "read" /\ req[q].pc = "done" /\ req[q].reply.data = <<2>>

\* C10 as stated: a READ that arrives after N >= 2 FORWARDs of distinct
\* bytes were all answered OK returns every one of those bytes exactly
\* once.
C10_ReadYieldsAll ==
    [][\A p \in Procs :
          (req[p].cmd = "READ" /\ req[p].tk >= 2
             /\ req[p].pc # "done" /\ req'[p].pc = "done")
          => /\ req'[p].reply.status = "OK"
             /\ Len(req'[p].reply.data) = req[p].tk
             /\ \A b \in 1..req[p].tk :
                   \E i \in 1..Len(req'[p].reply.data) : req'[p].reply.data[i] = b]_vars

NoRepeat(q) == \A i, j \in 1..Len(q) : i # j => q[i] # q[j]

IsSegment(d, q) == \E i \in 0..Len(q) : SubSeq(q, i + 1, i + Len(d)) = d

\* C10: with an echoing upstream, the bytes the READs have returned are
\* submitted FORWARD bytes, each at most once, every READ's Data being a
\* run of them; and every accepted FORWARD byte is returned by some READ
\* when READs keep coming. One READ may return only some of them or none.
C10_EachByteOnce ==
    /\ [](\A s \in SessIds :
             sess[s].kind = "echo"
             => /\ NoRepeat(sess[s].readLog)
                /\ \A i \in 1..Len(sess[s].readLog) : sess[s].readLog[i] \in 1..nfwd)
    /\ [](\A p \in Procs :
             (req[p].cmd = "READ" /\ req[p].pc = "done" /\ req[p].reply.status = "OK")
             => \E s \in SessIds : IsSegment(req[p].reply.data, sess[s].readLog))
    /\ \A s \in SessIds : \A b \in 1..MaxBytes :
          Accepted(s, b) ~> Delivered(s, b)

\* Two FORWARDs overlapped (the one that arrived second took the mutex
\* first), both were answered OK, and a READ returned both bytes.
C10_Witness ==
    \E s \in SessIds, p, q \in Procs :
        /\ sess[s].kind = "echo"
        /\ Len(sess[s].wire) = 2
        /\ sess[s].wire[1].d = <<2>> /\ sess[s].wire[2].d = <<1>>
        /\ req[p].cmd = "READ" /\ req[p].pc = "done"
        /\ req[p].reply.status = "OK" /\ req[p].reply.data = <<2, 1>>
        /\ req[q].cmd = "FORWARD" /\ req[q].pc = "done" /\ req[q].reply.status = "OK"

\* C11: every READ that has been dispatched eventually gets its reply.
C11_ReadReplies ==
    \A p \in Procs :
        (req[p].cmd = "READ" /\ req[p].pc # "done") ~> (req[p].pc = "done")

\* C13: once a DISCONNECT has closed a Session, its reader task and its
\* writer task both eventually end (and with them the socket is closed).
C13_WorkersExit ==
    \A s \in SessIds :
        sess[s].closeRet ~> (sess[s].rpc = "done" /\ sess[s].wpc = "done")

OkReply == [status |-> "OK", error |-> "", data |-> NoData]

\* C12: a DISCONNECT is answered Status = OK with the mark absent from
\* the registry; when it removed a Session that Session's closed flag is
\* true at the reply, and when the mark was absent neither the registry
\* nor any Session changed.
C12_Disconnect ==
    [][\A p \in Procs :
          (req[p].cmd = "DISCONNECT" /\ req[p].pc # "done" /\ req'[p].pc = "done")
          => /\ req'[p].reply = OkReply
             /\ registry'[req[p].mark] = 0
             /\ req[p].pc = "cl_set" => sess'[req[p].s].closed
             /\ req[p].pc = "d_lock" => (registry' = registry /\ sess' = sess)]_vars

\* A DISCONNECT removed and closed the Session of m1, and a second
\* DISCONNECT of m1, which found no Session, was answered OK as well.
C12_Witness ==
    /\ req[1].cmd = "DISCONNECT" /\ req[1].pc = "done" /\ req[1].reply = OkReply
    /\ req[1].s = 0
    /\ registry["m1"] = 0
    /\ sess[1].closed /\ sess[1].closeRet

Displaced(s) == s <= nsess /\ \A m \in Marks : registry[m] # s

\* The step that completes a CONNECT leaves every existing Session as it
\* was.
ConnectTouchesNone ==
    \A p \in Procs :
        (req[p].pc = "c_insert" /\ req'[p].pc = "done")
        => \A s \in AllSess : s <= nsess => sess'[s] = sess[s]

\* C15 as stated: CONNECT does not touch the Session it displaces, and
\* while the upstream of a displaced Session has not reached EOF the
\* Session is not closed and neither of its tasks has ended or shut the
\* socket down.
C15_DisplacedStaysLive ==
    /\ [][ConnectTouchesNone]_vars
    /\ [](\A s \in AllSess :
             (Displaced(s) /\ sess[s].up = "open")
             => /\ ~sess[s].closed /\ ~sess[s].wrShut
                /\ sess[s].rpc # "done" /\ sess[s].wpc # "done")

\* C15: CONNECT does not touch the Session it displaces; while the
\* upstream of a displaced Session has sent nothing and has neither closed
\* nor failed, the Session is not closed and its reader task is running.
C15_DisplacedReaderLive ==
    /\ [][ConnectTouchesNone]_vars
    /\ [](\A s \in AllSess :
             (Displaced(s) /\ sess[s].up = "open" /\ sess[s].arrived = <<>>)
             => ~sess[s].closed /\ sess[s].rpc # "done")

\* A second CONNECT on m1 was answered OK; the first Session is out of
\* the registry, open, its reader pending in read, its writer ended with
\* the write side shut down.
C15_Witness ==
    /\ registry["m1"] = 2 /\ Displaced(1)
    /\ \E p \in Procs : req[p].cmd = "CONNECT" /\ req[p].pc = "done"
                        /\ req[p].reply.status = "OK"
    /\ sess[1].up = "open" /\ ~sess[1].closed /\ sess[1].rpc = "read"
    /\ sess[1].wpc = "done" /\ sess[1].wrShut

\* C16: a CONNECT whose target does not parse or whose connect fails is
\* answered Status = FAIL with an Error, and neither the registry nor any
\* Session changes.
C16_ConnectFail ==
    [][\A p \in Procs :
          (req[p].pc = "c_connect" /\ req'[p].pc = "done")
          => /\ req'[p].reply.status = "FAIL"
             /\ req'[p].reply.error # ""
             /\ req'[p].reply.data = NoData
             /\ registry' = registry /\ sess' = sess /\ nsess' = nsess]_vars

\* A CONNECT on m1 failed while m1 had a Session, which is still
\* registered and open.
C16_Witness ==
    \E p \in Procs :
        /\ req[p].cmd = "CONNECT" /\ req[p].pc = "done" /\ req[p].mark = "m1"
        /\ req[p].reply.status = "FAIL" /\ req[p].reply.error = "Invalid address"
        /\ registry["m1"] = 1 /\ ~sess[1].closed /\ sess[1].rpc = "read"

\* C17: a READ that finds its Session closed at the is_closed() check is
\* answered Status = FAIL, Error "Session is closed", without Data, and
\* the Session (its read-outbox included) is left as it was.
C17_ReadClosed ==
    [][\A p \in Procs :
          (req[p].pc = "r_isclosed" /\ req'[p].pc # "r_isclosed"
             /\ sess[req[p].s].closed)
          => /\ req'[p].pc = "done"
             /\ req'[p].reply =
                   [status |-> "FAIL", error |-> "Session is closed", data |-> NoData]
             /\ sess' = sess]_vars

\* A READ was answered "Session is closed" on a registered Session that
\* is closed, a chunk still in its read-outbox.
C17_Witness ==
    \E p \in Procs :
        /\ req[p].cmd = "READ" /\ req[p].pc = "done"
        /\ req[p].reply.status = "FAIL" /\ req[p].reply.error = "Session is closed"
        /\ registry[req[p].mark] = 1 /\ sess[1].closed /\ sess[1].outbox # <<>>

\* C18: a READ that found its Session open at the is_closed() check is
\* answered Status = OK without Error; the reply carries Data exactly when
\* read_async returned Ok; when read_async returned SessionClosed the
\* reply is Status = OK without Data.
C18_ReadOpen ==
    [][\A p \in Procs :
          (req[p].cmd = "READ" /\ req[p].pc \in {"rd_snap", "rd_lock", "rd_wait"}
             /\ req'[p].pc = "done")
          => /\ req'[p].reply.status = "OK"
             /\ req'[p].reply.error = ""
             /\ req'[p].res \in {"Ok", "SessionClosed"}
             /\ (req'[p].reply.data # NoData) <=> (req'[p].res = "Ok")]_vars

\* A READ passed the is_closed() check, its read_async then returned
\* SessionClosed, and the reply is OK without Data.
C18_Witness ==
    \E p \in Procs :
        /\ req[p].cmd = "READ" /\ req[p].pc = "done" /\ req[p].res = "SessionClosed"
        /\ req[p].reply = OkReply

\* C19: a FORWARD for a registered mark without Data is answered FAIL
\* "No data provided" and changes no Session; with Data it is answered OK
\* exactly when write_async returned Ok, its chunk then being the last of
\* the write-inbox, and FAIL with the error's text otherwise ("Session is
\* closed" when the closed check failed), the write-inbox unchanged.
C19_Forward ==
    [][\A p \in Procs :
          (req[p].cmd = "FORWARD" /\ req[p].pc # "done" /\ req'[p].pc = "done"
             /\ (req[p].pc = "f_lock" => registry[req[p].mark] # 0))
          => CASE req[p].pc = "f_lock" ->
                    /\ req[p].data = NoData
                    /\ req'[p].reply = set_failure_response("No data provided")
                    /\ sess' = sess
               [] req[p].pc = "w_check" ->
                    /\ sess[req[p].s].closed
                    /\ req'[p].res = "SessionClosed"
                    /\ req'[p].reply = set_failure_response("Session is closed")
                    /\ sess' = sess
               [] OTHER ->
                    IF req'[p].res = "Ok"
                    THEN /\ req'[p].reply = OkReply
                         /\ sess'[req[p].s].inbox =
                               Append(sess[req[p].s].inbox,
                                      [d |-> req[p].data, t |-> req[p].tk])
                    ELSE /\ req'[p].reply.status = "FAIL"
                         /\ req'[p].reply.error = "Error: Send failed"
                         /\ sess'[req[p].s].inbox = sess[req[p].s].inbox]_vars

\* A FORWARD was answered OK with its chunk on the way to the upstream,
\* and a later one "Session is closed".
C19_Witness ==
    \E q \in Procs :
        /\ req[q].cmd = "FORWARD" /\ req[q].pc = "done"
        /\ req[q].reply = set_failure_response("Session is closed")
        /\ FlattenD(WritePath(1)) = <<1>>

\* C20: a READ or a FORWARD (with or without Data) that finds its mark
\* absent from the registry is answered FAIL "Session not found", and
\* neither the registry nor any Session changes.
C20_NotFound ==
    [][\A p \in Procs :
          (req[p].pc \in {"f_lock", "r_exists", "r_get"} /\ req'[p].pc # req[p].pc
             /\ registry[req[p].mark] = 0)
          => /\ req'[p].pc = "done"
             /\ req'[p].reply = set_failure_response("Session not found")
             /\ registry' = registry /\ sess' = sess /\ lock' = lock]_vars

\* No Session was ever made; a FORWARD that carried Data and a READ were
\* both answered "Session not found".
C20_Witness ==
    \E p, q \in Procs :
        /\ nsess = 0 /\ nfwd = 1
        /\ req[p].cmd = "FORWARD" /\ req[p].pc = "done"
        /\ req[p].reply = set_failure_response("Session not found")
        /\ req[q].cmd = "READ" /\ req[q].pc = "done"
        /\ req[q].reply = set_failure_response("Session not found")

\* C21: a request that is not one of the four commands (no frame could be
\* decoded from its body, or the frame's Cmd is absent or unknown) is
\* answered at once with the decoded HELLO page and no reply frame, and
\* the registry, the mutex and every Session stay as they were; a request
\* that is a command is never answered with the page.
C21_CoverPage ==
    /\ [][\A p \in Procs :
             (req[p].pc \in {"idle", "done"} /\ req'[p] # req[p]
                /\ req'[p].cmd \notin Commands)
             => /\ req'[p].pc = "done"
                /\ req'[p].body = "hello"
                /\ req'[p].reply = NoReply
                /\ registry' = registry /\ sess' = sess
                /\ nsess' = nsess /\ lock' = lock]_vars
    /\ [](\A p \in Procs : req[p].body = "hello" => req[p].cmd \notin Commands)

\* A request with the unknown command NOPE got the cover page while m1
\* has an open Session with a chunk waiting in its write-inbox.
C21_Witness ==
    \E p \in Procs :
        /\ req[p].pc = "done" /\ req[p].cmd = "NOPE" /\ req[p].body = "hello"
        /\ registry["m1"] = 1 /\ ~sess[1].closed /\ Len(sess[1].inbox) = 1

\* C22: every reply frame sent for one of the four commands has Status OK
\* or FAIL; it has an Error exactly when Status is FAIL; and it has Data
\* only when it answers a READ with Status OK.
C22_ReplyFields ==
    \A p \in Procs :
        (req[p].pc = "done" /\ req[p].body = "frame")
        => /\ req[p].cmd \in Commands
           /\ req[p].reply.status \in {"OK", "FAIL"}
           /\ (req[p].reply.error # "") <=> (req[p].reply.status = "FAIL")
           /\ req[p].reply.data # NoData
                 => (req[p].cmd = "READ" /\ req[p].reply.status = "OK")

\* A READ was answered OK with a byte of Data and a FORWARD FAIL with the
\* text of the closed Session.
C22_Witness ==
    \E p, q \in Procs :
        /\ req[p].cmd = "FORWARD" /\ req[p].pc = "done" /\ req[p].body = "frame"
        /\ req[p].reply = set_failure_response("Session is closed")
        /\ req[q].cmd = "READ" /\ req[q].pc = "done" /\ req[q].body = "frame"
        /\ req[q].reply = [status |-> "OK", error |-> "", data |-> <<1>>]

\* C23: the registry is empty at the start; a mark's entry changes only in
\* the step that completes a successful CONNECT for that mark (to a new
\* Session) and in the step of a DISCONNECT for that mark that removes it;
\* every other step of a handler, a cover request, or a task that closes
\* a Session at EOF or on an I/O error leaves the registry as it is.
C23_RegistryChanges ==
    /\ registry = [m \in Marks |-> 0]
    /\ [][\A m \in Marks :
             registry'[m] # registry[m]
             => \E p \in Procs :
                   /\ req[p].mark = m
                   /\ \/ /\ req[p].cmd = "CONNECT" /\ req[p].pc = "c_insert"
                         /\ req'[p].pc = "done" /\ req'[p].reply.status = "OK"
                         /\ registry'[m] = nsess + 1 /\ nsess' = nsess + 1
                      \/ /\ req[p].cmd = "DISCONNECT" /\ req[p].pc = "d_lock"
                         /\ registry'[m] = 0]_vars
    /\ [][\A s \in AllSess :
             (~sess[s].closed /\ sess'[s].closed /\ req' = req)
             => registry' = registry]_vars

\* A second CONNECT on m1 displaced the first Session; the second
\* Session was closed by its reader task at EOF and is still registered,
\* after a READ answered "Session is closed" and a failed CONNECT on m1.
C23_Witness ==
    \E p, q \in Procs :
        /\ nsess = 2 /\ registry["m1"] = 2
        /\ sess[2].closed /\ sess[2].up = "fin" /\ sess[2].rpc = "done"
        /\ ~sess[2].closeRet
        /\ req[p].cmd = "READ" /\ req[p].pc = "done"
        /\ req[p].reply = set_failure_response("Session is closed")
        /\ req[q].cmd = "CONNECT" /\ req[q].pc = "done"
        /\ req[q].reply.status = "FAIL"

\* C24: the socket read of the reader task that meets the upstream's EOF
\* (the peer has closed its side and no byte is left in the socket) sets
\* the closed flag and ends the reader task; and while the reader task is
\* scheduled fairly, a reader pending in that read gets there.
C24_EofCloses ==
    /\ [][\A s \in SessIds :
             (sess[s].rpc = "read" /\ sess'[s].rpc # "read"
                /\ sess[s].up = "fin" /\ sess[s].sockIn = <<>>)
             => (sess'[s].closed /\ sess'[s].rpc = "done")]_vars
    /\ \A s \in SessIds :
          (sess[s].rpc = "read" /\ sess[s].up = "fin" /\ sess[s].sockIn = <<>>)
             ~> (sess[s].closed /\ sess[s].rpc = "done")

\* The peer echoed a byte and closed; the reader task delivered the byte,
\* met EOF, closed the Session and ended, close() never having been
\* called and the writer task still waiting for chunks.
C24_Witness ==
    \E s \in SessIds :
        /\ sess[s].up = "fin" /\ sess[s].closed /\ sess[s].rpc = "done"
        /\ ~sess[s].closeRet /\ sess[s].wpc = "recv"
        /\ sess[s].arrived = <<1>> /\ sess[s].sockIn = <<>>

\* The 64 characters of the alphabet.
Alphabet == {EN[i] : i \in 1..Len(EN)}

\* C25: base64_decode(base64_encode(x)) returns Ok(x); the two maps have
\* the 64 alphabet characters as keys, en_map takes EN[i] to DE[i] and
\* de_map takes it back, each undoing the other on every character; any
\* other byte, the '=' padding (61) among them, is left as it is.
C25_Base64Roundtrip ==
    codec.op = "b64_decoded"
    => /\ codec.res = OkBytes(codec.raw)
       /\ DOMAIN en_map = Alphabet /\ DOMAIN de_map = Alphabet
       /\ \A i \in 1..Len(EN) : en_map[EN[i]] = DE[i] /\ de_map[DE[i]] = EN[i]
       /\ \A c \in Alphabet : de_map[en_map[c]] = c /\ en_map[de_map[c]] = c
       /\ \A c \in (0..255) \ Alphabet :
             Substitute(en_map, <<c>>) = <<c>> /\ Substitute(de_map, <<c>>) = <<c>>

\* Four bytes were encoded to eight characters, two of them padding and
\* the text not the standard one, and decoded back.
C25_Witness ==
    /\ codec.op = "b64_decoded"
    /\ codec.raw = <<0, 90, 165, 255>>
    /\ Len(codec.text) = 8 /\ codec.text[7] = 61 /\ codec.text[8] = 61
    /\ codec.text # StdEncode(codec.raw)
    /\ codec.res = OkBytes(codec.raw)

\* The frame that was encoded has none of its keys at 0 or 39.
NoPaddingKeys == 0 \notin DOMAIN codec.info /\ 39 \notin DOMAIN codec.info

\* Decoding the whole encoding gave the frame and, at keys 0 and 39, two
\* values of 5 to 19 bytes.
DecodedAsPadded ==
    /\ DOMAIN codec.out = DOMAIN codec.info \cup {0, 39}
    /\ \A k \in DOMAIN codec.info : codec.out[k] = codec.info[k]
    /\ Len(codec.out[0]) \in RandLengths /\ Len(codec.out[39]) \in RandLengths

\* C26 as stated: for every frame with integer keys other than 0 and 39
\* and every iteration order, blv_decode(blv_encode(m)) is m extended by
\* entries at 0 and 39 of 5 to 19 bytes each.
C26_TlvRoundtrip ==
    (codec.op = "blv_decoded" /\ codec.cut = Len(codec.buf) /\ NoPaddingKeys)
    => DecodedAsPadded

\* C26: the same for every frame whose keys are byte values (1 to 255)
\* other than 39.
C26_ByteTagRoundtrip ==
    (codec.op = "blv_decoded" /\ codec.cut = Len(codec.buf) /\ NoPaddingKeys
       /\ \A k \in DOMAIN codec.info : k \in 0..255)
    => DecodedAsPadded

\* A frame with fields 1 and 255 was encoded with field 39 first and
\* field 0 last, the two of different lengths, and decoded in full.
C26_Witness ==
    /\ codec.op = "blv_decoded" /\ codec.cut = Len(codec.buf)
    /\ DOMAIN codec.info = {1, 255}
    /\ codec.info[1] = <<79, 75>> /\ codec.info[255] = <<>>
    /\ codec.order = <<39, 255, 1, 0>>
    /\ Len(codec.padded[0]) = 5 /\ Len(codec.padded[39]) = 19
    /\ codec.out = codec.padded

\* The encoding has no tag byte twice.
UniqueTags ==
    \A i, j \in 1..Len(codec.order) :
        i # j => codec.order[i] % 256 # codec.order[j] % 256

\* The number of bytes of the encoding up to the end of its i-th record.
RECURSIVE RecordEnd(_)
RecordEnd(i) ==
    IF i = 0 THEN 0
    ELSE RecordEnd(i - 1) + 5 + Len(codec.padded[codec.order[i]])

\* C27: blv_decode applied to the first k bytes of an encoding with unique
\* tags, k less than its length, returns a map whose entries are entries
\* of the full decoding, namely those of the records that end within the
\* first k bytes.
C27_Truncation ==
    (codec.op = "blv_decoded" /\ codec.cut < Len(codec.buf) /\ UniqueTags)
    => LET full == blv_decode(codec.buf, FALSE).info
           whole == {i \in 1..Len(codec.order) : RecordEnd(i) <= codec.cut} IN
       /\ DOMAIN codec.out \subseteq DOMAIN full
       /\ \A t \in DOMAIN codec.out : codec.out[t] = full[t]
       /\ DOMAIN codec.out = {codec.order[i] % 256 : i \in whole}
       /\ \A i \in whole : codec.out[codec.order[i] % 256] = codec.padded[codec.order[i]]

\* An encoding of four records was cut inside the value of its third
\* record: the decoding has the first two.
C27_Witness ==
    /\ codec.op = "blv_decoded" /\ UniqueTags
    /\ codec.order = <<1, 39, 0, 255>>
    /\ codec.info[1] = <<79, 75>>
    /\ codec.cut = RecordEnd(2) + 5 + 2 /\ codec.cut < RecordEnd(3)
    /\ DOMAIN codec.out = {1, 39}
    /\ codec.out[1] = <<79, 75>>

\* A FORWARD waiting in tx.send for room in a full write-inbox.
Parked(p) ==
    /\ req[p].cmd = "FORWARD" /\ req[p].pc = "w_send"
    /\ ChanFull(sess[req[p].s].inbox) /\ sess[req[p].s].wpc # "done"

\* C28: whatever FORWARD is parked on a full write-inbox, every CONNECT,
\* READ and DISCONNECT that has been dispatched is eventually answered,
\* and so is every FORWARD that is not itself parked.
C28_ParkedBlocksNone ==
    \A p \in Procs :
        (req[p].pc \notin {"idle", "done"} /\ ~Parked(p))
            ~> (req[p].pc = "done" \/ Parked(p))

\* A read_async call of p returns in this step.
ReadReturns(p) ==
    req[p].cmd \in {"read", "READ"} /\ req[p].pc \in {"rd_lock", "rd_wait"}
        /\ req'[p].pc = "done"

\* C29 as stated: a read that finishes with an empty buffer while the
\* closed flag is true at that moment returns SessionClosed, never
\* Ok(empty).
C29_EmptyOkOnlyOpen ==
    [][\A p \in Procs :
          (ReadReturns(p) /\ req'[p].res = "Ok" /\ req'[p].reply.data = <<>>)
          => ~sess'[req[p].s].closed]_vars

\* C29, amended: a read returns Ok(empty) only when the closed flag was
\* false at the snapshot taken at its start; a read that finishes with an
\* empty buffer and a true snapshot returns SessionClosed, and so does one
\* whose wait ends because the buffer channel closed, which also sets the
\* flag. A flag set meanwhile by close() or by a task is not looked at.
C29_EmptyOkOnlyOpenAtSnapshot ==
    [][\A p \in Procs :
          LET s == req[p].s IN
          ReadReturns(p) =>
            /\ (req'[p].res = "Ok" /\ req'[p].reply.data = <<>>) => ~req[p].snap
            /\ (req[p].snap /\ sess[s].outbox = <<>>) => req'[p].res = "SessionClosed"
            /\ (req[p].pc = "rd_wait" /\ sess[s].outbox = <<>> /\ sess[s].rpc = "done")
                 => (req'[p].res = "SessionClosed" /\ sess'[s].closed)
            /\ (req[p].pc = "rd_wait" /\ sess[s].outbox = <<>> /\ sess[s].rpc # "done")
                 => (req'[p].res = "Ok" /\ req'[p].reply.data = <<>>
                       /\ sess'[s].closed = sess[s].closed)]_vars

\* close() set the flag between the snapshots of two reads: the read that
\* snapshotted after it found nothing buffered and returned SessionClosed,
\* the one that snapshotted before it is in its wait on the closed Session,
\* with nothing buffered and the reader task still running.
C29_Witness ==
    \E p, q \in Procs :
        /\ req[p].cmd = "read" /\ req[p].pc = "done" /\ req[p].snap
        /\ req[p].res = "SessionClosed"
        /\ req[q].cmd = "read" /\ req[q].pc = "rd_wait" /\ ~req[q].snap
        /\ sess[req[q].s].closed /\ sess[req[q].s].closeRet
        /\ sess[req[q].s].outbox = <<>> /\ sess[req[q].s].rpc # "done"

\* The chunk with ticket t has been written to the upstream socket.
OnWire(s, t) == \E i \in 1..Len(sess[s].wire) : sess[s].wire[i].t = t

\* C30: the writer task looks at the closed flag after each pop and before
\* the write. A popped chunk that meets a true flag is not written: the
\* task ends there, leaving what is still in the write-inbox unwritten,
\* and nothing is written after it has ended. A chunk goes on the wire only
\* from the write step, which is entered only from a check that found the
\* flag false.
C30_WriterChecksClosed ==
    [][\A s \in SessIds :
          /\ (sess[s].wpc = "check" /\ sess'[s].wpc # "check" /\ sess[s].closed)
               => /\ sess'[s].wpc = "done"
                  /\ sess'[s].wire = sess[s].wire
                  /\ ~OnWire(s, sess[s].wbuf.t)
                  /\ \A i \in 1..Len(sess[s].inbox) : ~OnWire(s, sess[s].inbox[i].t)
          /\ sess[s].wpc = "done"
               => (sess'[s].wpc = "done" /\ sess'[s].wire = sess[s].wire)
          /\ sess'[s].wire # sess[s].wire
               => /\ sess[s].wpc = "write"
                  /\ sess'[s].wire = Append(sess[s].wire, sess[s].wbuf)
          /\ (sess'[s].wpc = "write" /\ sess[s].wpc # "write")
               => (sess[s].wpc = "check" /\ ~sess[s].closed)]_vars

\* Two FORWARDs were answered OK, then a DISCONNECT closed the Session:
\* the writer task has ended on the flag with nothing written, while the
\* upstream is still connected and the reader task has not ended yet. Both
\* chunks are lost.
C30_Witness ==
    \E p, q \in Procs :
        /\ req[p].cmd = "FORWARD" /\ req[p].pc = "done" /\ req[p].reply.status = "OK"
        /\ req[q].cmd = "DISCONNECT" /\ req[q].pc = "done" /\ req[q].reply.status = "OK"
        /\ nsess = 1 /\ fwdSeq = 2
        /\ sess[1].closeRet /\ sess[1].wpc = "done" /\ sess[1].wire = <<>>
        /\ sess[1].up = "open" /\ sess[1].rpc # "done"

\* C31 as stated: a task of a Session has ended only if the closed flag
\* is true. (A socket operation that fails or reports EOF sets the flag
\* before the task leaves its loop, so the flag covers those exits.)
C31_EndOnlyClosedOrIo ==
    \A s \in AllSess : (sess[s].rpc = "done" \/ sess[s].wpc = "done") => sess[s].closed

\* The step in which the reader task of s ends, and why it may.
ReaderEnds(s) == sess[s].rpc # "done" /\ sess'[s].rpc = "done"

ReaderEndCause(s) ==
    \/ sess[s].rpc = "check" /\ sess[s].closed
    \/ sess[s].rpc = "read" /\ (sess[s].up = "rst" \/ (sess[s].up = "fin" /\ sess[s].sockIn = <<>>))
    \/ sess[s].rpc = "send" /\ ~SessionAlive(s)

\* The step in which the writer task of s ends, and why it may.
WriterEnds(s) == sess[s].wpc # "done" /\ sess'[s].wpc = "done"

WriterEndCause(s) ==
    \/ sess[s].wpc = "check" /\ sess[s].closed
    \/ sess[s].wpc = "write" /\ (sess[s].up = "rst" \/ sess[s].wrShut) /\ sess'[s].closed
    \/ sess[s].wpc = "recv" /\ sess[s].inbox = <<>> /\ ~SessionAlive(s)
           /\ sess'[s].closed = sess[s].closed

\* C31, amended: the reader task ends only on a true closed flag, on a
\* failed read or EOF, or on a failed push to the read-outbox, and the flag
\* is true whenever it has ended. The writer task ends only on a true
\* flag, on a failed write, or when its inbox is closed because no handle
\* to the Session is left; only in that last case can it have ended with
\* the flag still false.
C31_EndOnlyClosedIoOrDropped ==
    /\ [](\A s \in AllSess :
             /\ sess[s].rpc = "done" => sess[s].closed
             /\ sess[s].wpc = "done" => (sess[s].closed \/ ~SessionAlive(s)))
    /\ [][\A s \in AllSess :
             /\ ReaderEnds(s) => (ReaderEndCause(s) /\ sess'[s].closed)
             /\ WriterEnds(s) => WriterEndCause(s)]_vars

\* A second CONNECT on m1 displaced the first Session, whose writer task
\* ended on its closed inbox with the flag false and the upstream
\* connected; the reader task of the second Session ended at EOF and set
\* the flag.
C31_Witness ==
    /\ nsess = 2 /\ registry["m1"] = 2
    /\ sess[1].wpc = "done" /\ ~sess[1].closed /\ sess[1].up = "open"
    /\ sess[1].rpc # "done"
    /\ sess[2].rpc = "done" /\ sess[2].closed /\ sess[2].up = "fin"
    /\ ~sess[2].closeRet /\ sess[2].wpc # "done"

\* tlv_decode as C32 describes it: L is the length field minus the bias,
\* as an integer; a record with negative L, or with a value that would
\* end past the buffer, ends the parsing.
RECURSIVE tlv_decode_total(_, _, _)
tlv_decode_total(data, cursor, info) ==
    IF cursor + 5 > Len(data) THEN info
    ELSE LET raw == FromBE32(SubSeq(data, cursor + 2, cursor + 5)) IN
         IF raw < BLV_OFFSET THEN info
         ELSE IF raw - BLV_OFFSET > Len(data) - (cursor + 5) THEN info
         ELSE tlv_decode_total(data, cursor + 5 + (raw - BLV_OFFSET),
                  MapPut(info, data[cursor + 1],
                         SubSeq(data, cursor + 6, cursor + 5 + (raw - BLV_OFFSET))))

\* C32: for every received byte string blv_decode returns, without
\* failing, the records that precede the first record whose length field
\* minus the bias is negative or reaches past the buffer, whatever value
\* of the i32 range the length field has.
C32_DecodeTotal ==
    codec.op = "blv_received_decoded"
    => (~codec.panicked /\ codec.out = tlv_decode_total(codec.buf, 0, EmptyMap))

\* One of the two tasks of Session s has ended.
DeadWorker(s) == sess[s].rpc = "done" \/ sess[s].wpc = "done"

\* C33: a Session that is in the registry, or of which a handler holds a
\* clone, and one of whose tasks has ended has its closed flag true. A
\* FORWARD whose write_async looks at the flag of such a Session, or
\* reaches tx.send after the writer task ended, is answered FAIL and
\* queues nothing; a READ whose is_closed() looks at it is answered FAIL.
C33_NoDeadWorkerWhileOpen ==
    /\ [](\A s \in AllSess : (SessionAlive(s) /\ DeadWorker(s)) => sess[s].closed)
    /\ [][\A p \in Procs :
             LET s == req[p].s IN
             /\ (req[p].cmd = "FORWARD" /\ req[p].pc = "w_check" /\ req'[p].pc # "w_check"
                   /\ DeadWorker(s))
                  => /\ req'[p].pc = "done" /\ req'[p].reply.status = "FAIL"
                     /\ sess'[s].inbox = sess[s].inbox
             /\ (req[p].cmd = "FORWARD" /\ req[p].pc = "w_send" /\ req'[p].pc # "w_send"
                   /\ sess[s].wpc = "done")
                  => /\ req'[p].reply.status = "FAIL"
                     /\ sess'[s].inbox = sess[s].inbox
             /\ (req[p].cmd = "READ" /\ req[p].pc = "r_isclosed" /\ req'[p].pc # "r_isclosed"
                   /\ DeadWorker(s))
                  => (req'[p].pc = "done" /\ req'[p].reply.status = "FAIL")]_vars

\* The writer task of a registered Session ended on a failed write after
\* a reset and set the flag, the reader task still pending; a FORWARD on
\* it was then answered FAIL.
C33_Witness ==
    \E p \in Procs, s \in AllSess :
        /\ registry["m1"] = s /\ sess[s].wpc = "done" /\ sess[s].rpc \notin {"none", "done"}
        /\ sess[s].up = "rst" /\ sess[s].closed
        /\ req[p].cmd = "FORWARD" /\ req[p].pc = "done"
        /\ req[p].reply.status = "FAIL" /\ req[p].reply.error = "Session is closed"

====
